---- MODULE Spec2Model ----
(***************************************************************************)
(* Model of the evolutionary scheduler of openevolve:                      *)
(*   src/build/lib/openevolve/process_parallel.py                          *)
(* ProcessParallelController (start, stop, request_shutdown,               *)
(* run_evolution, _submit_iteration) and the worker task                   *)
(* _run_iteration_worker, together with the pool of futures between them.  *)
(*                                                                         *)
(* run_evolution is a coroutine.  Its steps are cut where the code reads   *)
(* the shutdown flag (lines 362, 456, 464), at its one await (line 370)    *)
(* and at each submission of the initial fill; everything else a step      *)
(* touches (pending_futures, island_pending, the counters, the database)   *)
(* is written by the controller alone.  request_shutdown (what a signal     *)
(* handler calls) and the completion of a worker task interleave freely    *)
(* with these steps.  start and stop are blocking calls of the thread that *)
(* drives run_evolution, so they happen before it is called or after it    *)
(* has returned.                                                           *)
(***************************************************************************)
EXTENDS Integers, Sequences, FiniteSets, TLC

\* ------------------------------------------------------------------ bounds
MaxWorkers == 2
MaxIslands == 3
MaxIterations == 3
MaxStart == 1
MaxSubmitFailures == 1

\* ------------------------------------------------------------- vocabulary
None == "<None>"
NoTarget == -1
Seed == -1
NoIsland == -1
NoIteration == -1
NotReturned == -2
NoParent == -2
NoCeiling == -1

Min(a, b) == IF a < b THEN a ELSE b
Max(a, b) == IF a > b THEN a ELSE b

\* Python truthiness of an Optional[str]: None and "" are both falsy.
Truthy(s) == s # None /\ s # ""

\* `x in lst` and lst.remove(x) on a list without duplicates.
InList(x, lst) == \E k \in 1 .. Len(lst) : lst[k] = x

\* Mutant of ListRemove: the pop of line 375 leaves the entry in the dict.
ListRemove_Keeps(lst, x) == lst

ListRemove(lst, x) == SelectSeq(lst, LAMBDA y : y # x)

VARIABLES
    \* configuration and arguments of run_evolution
    num_workers, num_islands, max_iterations, start_iteration, target_score,
    \* controller fields
    executor, shutdown_event,
    \* locals of run_evolution
    pc, pending_futures, island_pending, batch_per_island, current_iteration,
    next_iteration, completed_iterations, completed_iteration, island_id, slot,
    current_island_counter, result, returned,
    \* the pool: one future per submitted iteration
    futures, cancel_called, sampling_island, task_args,
    \* the population store
    db_programs, db_best, db_current_island,
    \* history: what the scheduler did
    submit_failures, log_line,
    \* apply_diffs_to_code: its locals, the edit of the current pass (db), the
    \* code before that pass and where the call is
    new_code, applied, skipped, diff_index, db, prev_code, stats, apply_pc,
    \* the diff branch of the worker: the response of the model, the code of
    \* the parent, what extract_raw_patch made of the response and
    \* of its own result, the outcome of the branch, the code after the edits
    \* of _parse_unified_blocks, and where the branch is
    llm_response, parent_code, sanitized, resanitized, outcome, unified_code, san_pc,
    \* the parsers of a response: the block _choose_best_block keeps
    chosen_block, parse_pc,
    \* extract_diffs_from_response: its list of edits and the fenced blocks
    diffs, code_blocks,
    \* one task of the worker: the mode of the configuration, the code of the
    \* child, the codes handed to the evaluator, the result the task returns
    \* and where the task is
    diff_based_evolution, child_code, evaluated, worker_result, worker_pc,
    \* calculate_edit_distance: its arguments, what it returns and where the
    \* call is
    word_a, word_b, ceiling, distance, dist_pc,
    \* one pass of the main loop step by step: the calls the pass has made on
    \* the database and the callback, and whether run_evolution was given a
    \* checkpoint callback
    steps, checkpoint_callback

cfgVars == <<num_workers, num_islands, max_iterations, start_iteration, target_score>>
ctlVars == <<executor, shutdown_event>>
runVars == <<pc, pending_futures, island_pending, batch_per_island, current_iteration,
             next_iteration, completed_iterations, completed_iteration, island_id, slot,
             current_island_counter, result, returned>>
poolVars == <<futures, cancel_called, sampling_island, task_args>>
dbVars == <<db_programs, db_best, db_current_island>>
histVars == <<submit_failures, log_line>>
editVars == <<new_code, applied, skipped, diff_index, db, prev_code, stats, apply_pc>>
sanVars == <<llm_response, parent_code, sanitized, resanitized, outcome, unified_code, san_pc>>
parseVars == <<chosen_block, parse_pc, diffs, code_blocks>>
workVars == <<diff_based_evolution, child_code, evaluated, worker_result, worker_pc>>
distVars == <<word_a, word_b, ceiling, distance, dist_pc>>
stepVars == <<steps, checkpoint_callback>>
toolVars == <<editVars, sanVars, parseVars, workVars, distVars, stepVars>>
schedVars == <<cfgVars, ctlVars, runVars, poolVars, dbVars, histVars>>
vars == <<schedVars, toolVars>>

\* ------------------------------------------------------- worker payloads
\* SerializableResult: error is None or a string, child_program_dict is
\* None (the empty sequence) or one program.
SerializableResult(child, parent, prompt, err, it) ==
    [child_program_dict |-> child, parent_id |-> parent, prompt |-> prompt,
     error |-> err, iteration |-> it]
NoResult == SerializableResult(<<>>, NoParent, {}, None, NoIteration)

\* The arguments pickled into a work item: the snapshot of
\* _create_database_snapshot (program table and current-island pointer) and
\* the id of the sampled parent.
TaskArgs(programs, pointer, parent) ==
    [db_snapshot |-> [programs |-> programs, current_island |-> pointer],
     parent_id |-> parent]
NoArgs == TaskArgs({}, NoIsland, NoParent)

ProgramIds(programs) == {p.id : p \in programs}

\* What one pass of the main loop logs about its result: the warning of
\* line 377, "Iteration {completed_iteration} error: {result.error}", or the
\* error of line 446, "Error processing result from iteration ...".
LogLine(kind, it, reason) == [kind |-> kind, iteration |-> it, reason |-> reason]
NoLog == LogLine("none", NoIteration, None)

\* What one task meets: an exception with message msg somewhere in the task
\* (exc), a named failure (SKIP, no diffs, no code, too long), or a child
\* with the mean metric score.
WorkerInputs ==
    [exc : {FALSE}, msg : {None}, named : BOOLEAN, score : 0 .. 1]
        \cup [exc : {TRUE}, msg : {"", "boom"}, named : {FALSE}, score : {0}]

\* _run_iteration_worker: the try block returns a named failure or a child,
\* the except clause returns error = str(e).
\* The parent is looked up in the snapshot (line 136, a KeyError when it is
\* missing) and the prompt is built from the snapshot's programs.
_run_iteration_worker(iteration, db_snapshot, parent_id, inp) ==
    IF inp.exc THEN SerializableResult(<<>>, NoParent, {}, inp.msg, iteration)
    ELSE IF parent_id \notin ProgramIds(db_snapshot.programs)
         THEN SerializableResult(<<>>, NoParent, {}, "KeyError", iteration)
    ELSE IF inp.named
         THEN SerializableResult(<<>>, NoParent, {},
                                 "No valid diffs found in response", iteration)
         ELSE SerializableResult(<<[id |-> iteration, score |-> inp.score]>>, parent_id,
                                 ProgramIds(db_snapshot.programs), None, iteration)

\* ----------------------------------------------------------- run_evolution
total_iterations == start_iteration + max_iterations

\* The iteration numbers one call of run_evolution can hand out.
Iterations == start_iteration .. (total_iterations - 1)

\* Mutant of BatchSize: three tasks per worker instead of two.
BatchSize_TripleWorkers(nw, mi) == Min(nw * 3, mi)

BatchSize(nw, mi) == Min(nw * 2, mi)

\* Mutant of BatchPerIsland: the pool size is not doubled.
BatchPerIsland_NoDoubling(nw, ni, mi) ==
    IF Min(nw, mi) > 0 THEN Max(1, Min(nw, mi) \div ni) ELSE 0

BatchPerIsland(nw, ni, mi) ==
    IF BatchSize(nw, mi) > 0 THEN Max(1, BatchSize(nw, mi) \div ni) ELSE 0

ProgramsPerIsland == Max(1, max_iterations \div (num_islands * 10))

Islands == 0 .. (num_islands - 1)

\* The controller after __init__, for a configuration and the arguments
\* run_evolution will be called with.
Constructed(nw, ni, mi, si, ts) ==
    /\ num_workers = nw
    /\ num_islands = ni
    /\ max_iterations = mi
    /\ start_iteration = si
    /\ target_score = ts
    /\ executor = "none"
    /\ shutdown_event = FALSE
    /\ pc = "idle"
    /\ pending_futures = <<>>
    /\ island_pending = [i \in 0 .. (ni - 1) |-> <<>>]
    /\ batch_per_island = 0
    /\ current_iteration = 0
    /\ next_iteration = 0
    /\ completed_iterations = 0
    /\ completed_iteration = NoIteration
    /\ island_id = 0
    /\ slot = 0
    /\ current_island_counter = 0
    /\ result = NoResult
    /\ returned = NotReturned
    /\ futures = [it \in si .. (si + mi - 1) |-> "none"]
    /\ cancel_called = {}
    /\ sampling_island = [it \in si .. (si + mi - 1) |-> NoIsland]
    /\ task_args = [it \in si .. (si + mi - 1) |-> NoArgs]
    /\ db_programs = {[id |-> Seed, score |-> 0]}
    /\ db_best = Seed
    /\ db_current_island = 0
    /\ submit_failures = 0
    /\ log_line = NoLog

\* No call of apply_diffs_to_code is under way.
NoDiff == [search |-> <<>>, replace |-> <<>>]
NoStats == [applied_count |-> 0, skipped_count |-> 0, total |-> 0]

EditIdle ==
    /\ new_code = <<>>
    /\ applied = 0
    /\ skipped = 0
    /\ diff_index = 0
    /\ db = NoDiff
    /\ prev_code = <<>>
    /\ stats = NoStats
    /\ apply_pc = "idle"

\* The outcome of lines 176-197: the error of the result, or the child code.
DiffOutcome(err, blocks, child) == [error |-> err, diff_blocks |-> blocks, child_code |-> child]
NoOutcome == DiffOutcome(None, <<>>, <<>>)

\* The diff branch of the worker is not under way.
SanIdle ==
    /\ llm_response = <<>>
    /\ parent_code = <<>>
    /\ sanitized = <<>>
    /\ resanitized = <<>>
    /\ outcome = NoOutcome
    /\ unified_code = <<>>
    /\ san_pc = "idle"

\* No parser has been called.
ParseIdle ==
    /\ chosen_block = <<>>
    /\ diffs = <<>>
    /\ code_blocks = <<>>
    /\ parse_pc = "idle"

\* No task of the worker is under way.
WorkIdle ==
    /\ diff_based_evolution = TRUE
    /\ child_code = <<>>
    /\ evaluated = <<>>
    /\ worker_result = NoResult
    /\ worker_pc = "idle"

\* calculate_edit_distance is not called.
DistIdle ==
    /\ word_a = <<>>
    /\ word_b = <<>>
    /\ ceiling = NoCeiling
    /\ distance = 0
    /\ dist_pc = "idle"

\* The calls of a pass are not followed.
StepIdle ==
    /\ steps = <<>>
    /\ checkpoint_callback = FALSE

Init ==
    \E nw \in 1 .. MaxWorkers, ni \in 1 .. MaxIslands, mi \in 0 .. MaxIterations,
       si \in 0 .. MaxStart, ts \in {NoTarget, 1} :
        Constructed(nw, ni, mi, si, ts) /\ EditIdle /\ SanIdle /\ ParseIdle /\ WorkIdle /\ DistIdle /\ StepIdle


\* ------------------------------------------------ controller: start / stop
\* The thread that calls start, stop and run_evolution is neither inside
\* run_evolution nor blocked in stop.
CallerFree == pc \in {"idle", "done", "raised"} /\ executor # "shutdown"

\* start(): a fresh ProcessPoolExecutor.
Start ==
    /\ CallerFree
    /\ executor' = "pool"
    /\ UNCHANGED <<cfgVars, toolVars, shutdown_event, runVars, poolVars, dbVars, histVars>>

\* stop(), lines 301-303: set the flag, then executor.shutdown(wait=True)
\* begins; a pool that is shutting down refuses new work.
Stop ==
    /\ CallerFree
    /\ shutdown_event' = TRUE
    /\ executor' = IF executor = "pool" THEN "shutdown" ELSE executor
    /\ UNCHANGED <<cfgVars, toolVars, runVars, poolVars, dbVars, histVars>>

\* stop(), lines 303-304: shutdown(wait=True) returns once no task is
\* running; then self.executor = None.
StopJoin ==
    /\ executor = "shutdown"
    /\ \A it \in Iterations : futures[it] # "running"
    /\ executor' = "none"
    /\ UNCHANGED <<cfgVars, toolVars, shutdown_event, runVars, poolVars, dbVars, histVars>>

\* request_shutdown(): set the flag, nothing else.
RequestShutdown ==
    /\ shutdown_event' = TRUE
    /\ UNCHANGED <<cfgVars, toolVars, executor, runVars, poolVars, dbVars, histVars>>

\* ------------------------------------------------------------ worker pool
\* A running task returns: the future is done and holds the value of
\* _run_iteration_worker.  Nothing reads that value before fut.result() at
\* line 375, and it depends on nothing the scheduler can change, so it is
\* drawn there (Harvest).
WorkerDone(it) ==
    /\ futures[it] = "running"
    /\ futures' = [futures EXCEPT ![it] = "finished"]
    /\ UNCHANGED <<cfgVars, toolVars, ctlVars, runVars, cancel_called, sampling_island, task_args,
                   dbVars, histVars>>

\* The task ends with an exception the except clause of line 239 does not
\* catch (a BaseException such as SystemExit) or its result cannot be sent
\* back: the future holds the exception and fut.result() raises it.
WorkerCrash(it) ==
    /\ futures[it] = "running"
    /\ futures' = [futures EXCEPT ![it] = "failed"]
    /\ UNCHANGED <<cfgVars, toolVars, ctlVars, runVars, cancel_called, sampling_island, task_args,
                   dbVars, histVars>>

\* ------------------------------------------------------ _submit_iteration
\* _submit_iteration returns a future when sampling and executor.submit both
\* succeed, None when either raises (a pool that is None or shut down
\* raises in submit).  sample_ok is whether database.sample returned.
SubmitReturnsFuture(sample_ok) == sample_ok /\ executor = "pool"

\* The outcomes of database.sample to explore: it returns, or it raises.
SampleOutcomes == IF submit_failures < MaxSubmitFailures THEN BOOLEAN ELSE {TRUE}

\* Line 476: the pointer database.sample works with.
BoundPointer(original, target) == target

\* Mutant of RestoredPointer: the finally clause is missing and the pointer
\* stays at the island of the submission.
RestoredPointer_LeftBound(original, target) == target

\* Lines 479-480: the finally clause puts the pointer back, whether
\* database.sample returned or raised.
RestoredPointer(original, target) == original

\* database.sample: the parents it can return, programs of the population.
DatabaseSample(programs, pointer) == ProgramIds(programs)

\* Lines 482-487: the snapshot is built from the population after the pointer
\* is restored, and goes into the work item with the parent's id.
_create_database_snapshot(original, target, parent) ==
    TaskArgs(db_programs, RestoredPointer(original, target), parent)

\* The effect of _submit_iteration(iteration, island) on the pool; the
\* current-island pointer is bound to the island and restored (lines 475-480).
SubmitIteration(iteration, island, sample_ok) ==
    LET original_island == db_current_island
        target_island == island
        sampled_with == BoundPointer(original_island, target_island)
    IN  /\ IF SubmitReturnsFuture(sample_ok)
           THEN /\ futures' = [futures EXCEPT ![iteration] = "running"]
                /\ sampling_island' = [sampling_island EXCEPT ![iteration] = sampled_with]
                /\ \E parent \in DatabaseSample(db_programs, sampled_with) :
                      task_args' = [task_args EXCEPT ![iteration] =
                                       _create_database_snapshot(original_island, target_island,
                                                                 parent)]
                /\ submit_failures' = submit_failures
           ELSE /\ submit_failures' = submit_failures + 1
                /\ UNCHANGED <<futures, sampling_island, task_args>>
        /\ db_current_island' = RestoredPointer(original_island, target_island)
        /\ UNCHANGED cancel_called

\* ------------------------------------------------- run_evolution: the fill
\* Mutant of RunEvolution: the test of line 332 is missing.
RunEvolution_NoPoolCheck ==
    /\ pc = "idle"
    /\ CallerFree
    /\ pc' = "fill"
    /\ pending_futures' = <<>>
    /\ island_pending' = [i \in Islands |-> <<>>]
    /\ batch_per_island' = BatchPerIsland(num_workers, num_islands, max_iterations)
    /\ current_iteration' = start_iteration
    /\ island_id' = 0
    /\ slot' = 0
    /\ UNCHANGED <<cfgVars, toolVars, ctlVars, next_iteration, completed_iterations,
                   completed_iteration, current_island_counter, result, returned,
                   poolVars, dbVars, histVars>>

\* Lines 332-346: refuse without a pool, else set up the locals.
RunEvolution ==
    /\ pc = "idle"
    /\ CallerFree
    /\ IF executor = "none"
       THEN /\ pc' = "raised"
            /\ UNCHANGED <<pending_futures, island_pending, batch_per_island,
                           current_iteration, island_id, slot>>
       ELSE /\ pc' = "fill"
            /\ pending_futures' = <<>>
            /\ island_pending' = [i \in Islands |-> <<>>]
            /\ batch_per_island' = BatchPerIsland(num_workers, num_islands, max_iterations)
            /\ current_iteration' = start_iteration
            /\ island_id' = 0
            /\ slot' = 0
    /\ UNCHANGED <<cfgVars, toolVars, ctlVars, next_iteration, completed_iterations,
                   completed_iteration, current_island_counter, result, returned,
                   poolVars, dbVars, histVars>>

\* Lines 348-355: one pass of the inner loop of the initial fill.
FillStep ==
    /\ pc = "fill"
    /\ island_id < num_islands
    /\ slot < batch_per_island
    /\ IF current_iteration < total_iterations
       THEN \E sample_ok \in SampleOutcomes :
               /\ SubmitIteration(current_iteration, island_id, sample_ok)
               /\ IF SubmitReturnsFuture(sample_ok)
                  THEN /\ pending_futures' = Append(pending_futures, current_iteration)
                       /\ island_pending' =
                             [island_pending EXCEPT
                                 ![island_id] = Append(@, current_iteration)]
                  ELSE UNCHANGED <<pending_futures, island_pending>>
               /\ current_iteration' = current_iteration + 1
       ELSE UNCHANGED <<pending_futures, island_pending, current_iteration,
                        poolVars, submit_failures, db_current_island>>
    /\ IF slot + 1 < batch_per_island
       THEN /\ slot' = slot + 1
            /\ island_id' = island_id
       ELSE /\ slot' = 0
            /\ island_id' = island_id + 1
    /\ UNCHANGED <<cfgVars, toolVars, ctlVars, pc, batch_per_island, next_iteration,
                   completed_iterations, completed_iteration, current_island_counter,
                   result, returned, db_programs, db_best, log_line>>

\* Lines 357-360: the fill is over, the main loop starts.
FillDone ==
    /\ pc = "fill"
    /\ island_id = num_islands \/ batch_per_island = 0
    /\ pc' = "loop"
    /\ next_iteration' = current_iteration
    /\ completed_iterations' = 0
    /\ current_island_counter' = 0
    /\ island_id' = 0
    /\ UNCHANGED <<cfgVars, toolVars, ctlVars, pending_futures, island_pending, batch_per_island,
                   current_iteration, completed_iteration, slot, result, returned,
                   poolVars, dbVars, histVars>>


\* ------------------------------------------- run_evolution: the main loop
\* Mutant of LoopCondition: the loop forgets to read the shutdown flag.
LoopCondition_IgnoresShutdown ==
    /\ Len(pending_futures) > 0
    /\ completed_iterations < max_iterations

\* Line 362, the loop condition.
LoopCondition ==
    /\ Len(pending_futures) > 0
    /\ completed_iterations < max_iterations
    /\ ~shutdown_event

\* fut.done(): the task returned or its process died.
FutureDone(it) == futures[it] \in {"finished", "failed"}

\* Lines 363-367: the first pending iteration, in dict order, whose future
\* is done.
RECURSIVE FirstDone(_)
FirstDone(lst) ==
    IF lst = <<>> THEN NoIteration
    ELSE IF FutureDone(Head(lst)) THEN Head(lst)
    ELSE FirstDone(Tail(lst))

\* Line 362 false: leave the loop.
LoopExit ==
    /\ pc = "loop"
    /\ ~LoopCondition
    /\ pc' = "finish"
    /\ UNCHANGED <<cfgVars, toolVars, ctlVars, pending_futures, island_pending, batch_per_island,
                   current_iteration, next_iteration, completed_iterations,
                   completed_iteration, island_id, slot, current_island_counter,
                   result, returned, poolVars, dbVars, histVars>>

\* Lines 369-371: nothing is done yet; await asyncio.sleep(0.01).
LoopSleep ==
    /\ pc = "loop"
    /\ LoopCondition
    /\ FirstDone(pending_futures) = NoIteration
    /\ pc' = "sleep"
    /\ UNCHANGED <<cfgVars, toolVars, ctlVars, pending_futures, island_pending, batch_per_island,
                   current_iteration, next_iteration, completed_iterations,
                   completed_iteration, island_id, slot, current_island_counter,
                   result, returned, poolVars, dbVars, histVars>>

\* The sleep is over: continue, back to line 362.
WakeUp ==
    /\ pc = "sleep"
    /\ pc' = "loop"
    /\ UNCHANGED <<cfgVars, toolVars, ctlVars, pending_futures, island_pending, batch_per_island,
                   current_iteration, next_iteration, completed_iterations,
                   completed_iteration, island_id, slot, current_island_counter,
                   result, returned, poolVars, dbVars, histVars>>

\* The calls of the success branch that can raise, in the order of lines
\* 379-437.
IntegrationSteps ==
    <<"Program", "add", "store_artifacts", "log_prompt", "next_island",
      "increment_island_generation", "should_migrate", "migrate_programs",
      "log_island_status", "checkpoint_callback">>

StepIndex(name) == CHOOSE k \in 1 .. Len(IntegrationSteps) : IntegrationSteps[k] = name

\* fail = 0: no call raises; fail = k: the k-th call raises.  A call is
\* passed when it returned without raising.
Passed(name, fail) == fail = 0 \/ StepIndex(name) < fail

\* Line 376: `if result.error`.
ResultIsError(res) == Truthy(res.error)

\* Line 378: `elif result.child_program_dict`.
ResultHasChild(res) == Len(res.child_program_dict) > 0

\* Line 393: the island rotation is due.
RotationDue(it) ==
    it > start_iteration /\ current_island_counter >= ProgramsPerIsland

\* Lines 439-443: the target score is configured and met.
TargetReached(child) ==
    target_score # NoTarget /\ child.score >= target_score

\* database.add and the best-program tracking of the population store.
ScoreOf(programs, pid) == (CHOOSE p \in programs : p.id = pid).score

DatabaseAdd(programs, child) == programs \cup {child}

DatabaseBest(programs, best, child) ==
    IF child.score > ScoreOf(programs, best) THEN child.id ELSE best

\* database.next_island().
NextIsland(island) == (island + 1) % num_islands

\* Lines 379-443 for a result with a child; fail says which call raises.
IntegrateChild(it, child, fail) ==
    /\ IF Passed("add", fail)
       THEN /\ db_programs' = DatabaseAdd(db_programs, child)
            /\ db_best' = DatabaseBest(db_programs, db_best, child)
       ELSE UNCHANGED <<db_programs, db_best>>
    /\ IF Passed("log_prompt", fail) /\ RotationDue(it)
       THEN IF Passed("next_island", fail)
            THEN /\ db_current_island' = NextIsland(db_current_island)
                 /\ current_island_counter' = 1
            ELSE UNCHANGED <<db_current_island, current_island_counter>>
       ELSE /\ db_current_island' = db_current_island
            /\ current_island_counter' =
                  IF Passed("log_prompt", fail)
                  THEN current_island_counter + 1
                  ELSE current_island_counter
    /\ log_line' = IF fail = 0 THEN NoLog ELSE LogLine("error", it, "Error processing result")
    /\ pc' = IF fail = 0 /\ TargetReached(child) THEN "finish" ELSE "post"

\* Mutant of Integrate: without the except clause of lines 445-446 an
\* exception of fut.result() or of the success branch leaves run_evolution.
Integrate_ExceptionEscapes(it, crashed, res, fail) ==
    IF crashed \/ (fail # 0 /\ ~ResultIsError(res) /\ ResultHasChild(res))
    THEN /\ pc' = "raised"
         /\ result' = NoResult
         /\ log_line' = NoLog
         /\ UNCHANGED <<dbVars, current_island_counter>>
    ELSE /\ result' = res
         /\ IF ResultIsError(res)
            THEN /\ pc' = "post"
                 /\ log_line' = LogLine("warning", it, res.error)
                 /\ UNCHANGED <<dbVars, current_island_counter>>
            ELSE IF ResultHasChild(res)
            THEN IntegrateChild(it, res.child_program_dict[1], 0)
            ELSE /\ pc' = "post"
                 /\ log_line' = NoLog
                 /\ UNCHANGED <<dbVars, current_island_counter>>

\* Lines 373-446 for the popped iteration it: fut.result() raises (crashed)
\* or returns res; fail says which call of the success branch raises.
\* Every exception ends in the except clause of lines 445-446.
Integrate(it, crashed, res, fail) ==
    IF crashed
    THEN /\ pc' = "post"
         /\ result' = NoResult
         /\ log_line' = LogLine("error", it, "Error processing result")
         /\ UNCHANGED <<dbVars, current_island_counter>>
    ELSE /\ result' = res
         /\ IF ResultIsError(res)
            THEN /\ pc' = "post"
                 /\ log_line' = LogLine("warning", it, res.error)
                 /\ UNCHANGED <<dbVars, current_island_counter>>
            ELSE IF ResultHasChild(res)
            THEN IntegrateChild(it, res.child_program_dict[1], fail)
            ELSE /\ pc' = "post"
                 /\ log_line' = NoLog
                 /\ UNCHANGED <<dbVars, current_island_counter>>

\* Mutant of SnapshotRead: the task reads the population as it is when the
\* task's result is computed, not as it was when the task was submitted.
SnapshotRead_Live(it) ==
    [programs |-> db_programs, current_island |-> db_current_island]

\* What the task of iteration it reads: the snapshot in its work item.
SnapshotRead(it) == task_args[it].db_snapshot

\* Lines 362-446 when a pending future is done: pop it, read its result and
\* integrate it.
Harvest ==
    /\ pc = "loop"
    /\ LoopCondition
    /\ FirstDone(pending_futures) # NoIteration
    /\ LET it == FirstDone(pending_futures)
       IN  /\ completed_iteration' = it
           /\ pending_futures' = ListRemove(pending_futures, it)
           /\ futures' = [futures EXCEPT ![it] = "collected"]
           /\ \E inp \in WorkerInputs, fail \in 0 .. Len(IntegrationSteps) :
                 /\ fail = StepIndex("next_island") => RotationDue(it)
                 /\ Integrate(it, futures[it] = "failed",
                              _run_iteration_worker(it, SnapshotRead(it),
                                                    task_args[it].parent_id, inp),
                              fail)
    /\ UNCHANGED <<cfgVars, toolVars, ctlVars, island_pending, batch_per_island, current_iteration,
                   next_iteration, completed_iterations, island_id, slot, returned,
                   cancel_called, sampling_island, task_args,
                   submit_failures>>

\* Mutant of Post: the result is counted but its island's slot is not freed.
Post_NoDecrement ==
    /\ pc = "post"
    /\ completed_iterations' = completed_iterations + 1
    /\ pc' = "replace"
    /\ island_id' = 0
    /\ UNCHANGED <<cfgVars, toolVars, ctlVars, pending_futures, island_pending, batch_per_island,
                   current_iteration, next_iteration, completed_iteration, slot,
                   current_island_counter, result, returned, poolVars, dbVars, histVars>>

\* Lines 448-453: count the result and free its island's slot.
Post ==
    /\ pc = "post"
    /\ completed_iterations' = completed_iterations + 1
    /\ island_pending' =
          IF \E i \in Islands : InList(completed_iteration, island_pending[i])
          THEN LET i == CHOOSE i \in Islands :
                            /\ InList(completed_iteration, island_pending[i])
                            /\ \A j \in Islands :
                                  InList(completed_iteration, island_pending[j]) => i <= j
               IN  [island_pending EXCEPT ![i] = ListRemove(@, completed_iteration)]
          ELSE island_pending
    /\ pc' = "replace"
    /\ island_id' = 0
    /\ UNCHANGED <<cfgVars, toolVars, ctlVars, pending_futures, batch_per_island, current_iteration,
                   next_iteration, completed_iteration, slot, current_island_counter,
                   result, returned, poolVars, dbVars, histVars>>

\* Mutant of CanReplace: the quota test is off by one (<= for <).
CanReplace_AtQuota(island) ==
    /\ Len(island_pending[island]) <= batch_per_island
    /\ next_iteration < total_iterations
    /\ ~shutdown_event

\* Mutant of CanReplace: the budget test stops one iteration short.
CanReplace_BudgetShort(island) ==
    /\ Len(island_pending[island]) < batch_per_island
    /\ next_iteration + 1 < total_iterations
    /\ ~shutdown_event

\* Line 456: island_id may take a replacement.
CanReplace(island) ==
    /\ Len(island_pending[island]) < batch_per_island
    /\ next_iteration < total_iterations
    /\ ~shutdown_event

\* Lines 455-462: one pass of the replacement loop.  On the way back to line
\* 362 the loop variables island_id and completed_iteration are dead (lines
\* 363, 375 and 455 assign them before any read) and are reset here together
\* with result, and log_line, the line the pass has logged, is cleared.
ReplaceStep ==
    /\ pc = "replace"
    /\ island_id < num_islands
    /\ IF CanReplace(island_id)
       THEN \E sample_ok \in SampleOutcomes :
               /\ SubmitIteration(next_iteration, island_id, sample_ok)
               /\ IF SubmitReturnsFuture(sample_ok)
                  THEN /\ pending_futures' = Append(pending_futures, next_iteration)
                       /\ island_pending' =
                             [island_pending EXCEPT ![island_id] = Append(@, next_iteration)]
                       /\ next_iteration' = next_iteration + 1
                       /\ pc' = "loop"
                       /\ island_id' = 0
                       /\ completed_iteration' = NoIteration
                       /\ result' = NoResult
                       /\ log_line' = NoLog
                  ELSE /\ island_id' = island_id + 1
                       /\ UNCHANGED <<pending_futures, island_pending, next_iteration, pc,
                                      completed_iteration, result, log_line>>
       ELSE /\ island_id' = island_id + 1
            /\ UNCHANGED <<pending_futures, island_pending, next_iteration, pc,
                           completed_iteration, result, poolVars, histVars,
                           db_current_island>>
    /\ UNCHANGED <<cfgVars, toolVars, ctlVars, batch_per_island, current_iteration,
                   completed_iterations, slot,
                   current_island_counter, returned, db_programs, db_best>>

\* Line 455 exhausted without a break: back to line 362.
ReplaceDone ==
    /\ pc = "replace"
    /\ island_id = num_islands
    /\ pc' = "loop"
    /\ island_id' = 0
    /\ completed_iteration' = NoIteration
    /\ result' = NoResult
    /\ log_line' = NoLog
    /\ UNCHANGED <<cfgVars, toolVars, ctlVars, pending_futures, island_pending, batch_per_island,
                   current_iteration, next_iteration, completed_iterations,
                   slot, current_island_counter,
                   returned, poolVars, dbVars, submit_failures>>

\* Mutant of CancelTargets: only futures that are not done get cancel().
CancelTargets_SkipsDone ==
    IF shutdown_event
    THEN {pending_futures[k] : k \in 1 .. Len(pending_futures)}
            \ {it \in Iterations : futures[it] \in {"finished", "failed"}}
    ELSE {}

\* Lines 464-467: which futures get cancel().
CancelTargets == IF shutdown_event THEN {pending_futures[k] : k \in 1 .. Len(pending_futures)} ELSE {}

\* database.get_best_program().
GetBestProgram == db_best

\* Lines 464-470: cancel what is pending if shutdown was requested, return
\* the best program.
Finish ==
    /\ pc = "finish"
    /\ cancel_called' = cancel_called \cup CancelTargets
    /\ returned' = GetBestProgram
    /\ pc' = "done"
    /\ UNCHANGED <<cfgVars, toolVars, ctlVars, pending_futures, island_pending, batch_per_island,
                   current_iteration, next_iteration, completed_iterations,
                   completed_iteration, island_id, slot, current_island_counter,
                   result, futures, sampling_island, task_args, dbVars,
                   histVars>>

\* ---------------------------------------------------------- specification
Controller ==
    \/ RunEvolution
    \/ FillStep
    \/ FillDone
    \/ LoopExit
    \/ LoopSleep
    \/ WakeUp
    \/ Harvest
    \/ Post
    \/ ReplaceStep
    \/ ReplaceDone
    \/ Finish

Next ==
    \/ Start
    \/ Stop
    \/ StopJoin
    \/ RequestShutdown
    \/ \E it \in Iterations : WorkerDone(it)
    \/ \E it \in Iterations : WorkerCrash(it)
    \/ Controller

Spec == Init /\ [][Next]_vars

\* The event loop keeps running the coroutine, and a task that is running in
\* the pool comes to an end (it returns or its process dies).
Worker == \E it \in Iterations : WorkerDone(it) \/ WorkerCrash(it)

FairSpec == Spec /\ WF_vars(Controller) /\ WF_vars(Worker)

\* The initial fill alone (run_evolution up to line 360), for the
\* configurations of Init and for 2 islands with a pool of 4 and a budget of
\* 8 or 9 iterations.
FillInit ==
    \/ Init
    \/ \E mi \in {8, 9}, si \in 0 .. MaxStart, ts \in {NoTarget, 1} :
          Constructed(4, 2, mi, si, ts) /\ EditIdle /\ SanIdle /\ ParseIdle /\ WorkIdle /\ DistIdle /\ StepIdle

FillNext ==
    \/ Start
    \/ Stop
    \/ StopJoin
    \/ RequestShutdown
    \/ \E it \in Iterations : WorkerDone(it)
    \/ \E it \in Iterations : WorkerCrash(it)
    \/ RunEvolution
    \/ FillStep
    \/ FillDone

FillSpec == FillInit /\ [][FillNext]_vars


\* ================================================================ claims
\* The iterations handed to the pool, those whose result the scheduler has
\* popped, and those submitted and not yet harvested.
Submitted == {it \in Iterations : futures[it] # "none"}
Collected == {it \in Iterations : futures[it] = "collected"}
Unharvested == Submitted \ Collected

\* The tasks of island i that are submitted and not yet harvested.
Outstanding(i) == {it \in Unharvested : sampling_island[it] = i}

\* C1: once the shutdown flag is set, no step of run_evolution hands a
\* further task to the pool, in the initial fill or as a replacement.
C1_NoSubmissionAfterShutdown ==
    [][shutdown_event => Submitted' = Submitted]_vars

\* C2: when run_evolution returns with the shutdown flag set, every task
\* that is submitted and not yet harvested has received cancel().
C2_PendingCancelledOnShutdown ==
    [][(pc = "finish" /\ pc' = "done" /\ shutdown_event)
          => Unharvested' \subseteq cancel_called']_vars

\* C2 witness: shutdown came in mid-run (a result had been harvested
\* before) and run_evolution returned having cancelled what was pending.
C2_Witness ==
    /\ pc = "done"
    /\ shutdown_event
    /\ Collected # {}
    /\ Unharvested # {}
    /\ Unharvested \subseteq cancel_called

C4_IslandBackpressure ==
    \A i \in Islands : Cardinality(Outstanding(i)) <= batch_per_island

\* C4 witness: in the main loop, after a replacement, an island is at a
\* quota of two or more.
C4_Witness ==
    /\ pc \in {"loop", "sleep"}
    /\ next_iteration > current_iteration
    /\ batch_per_island >= 2
    /\ \E i \in Islands : Cardinality(Outstanding(i)) = batch_per_island

\* C5 as claimed: the tasks in flight never exceed 2 * num_workers, for
\* every pool size and island count.
C5_InFlightAtMostTwicePool ==
    Cardinality(Unharvested) <= 2 * num_workers

\* C5 amended: the tasks in flight never exceed the larger of
\* 2 * num_workers and num_islands (every island gets a quota of at least
\* one); they stay within 2 * num_workers when num_islands <= 2 * num_workers.
C5_InFlightBound ==
    /\ Cardinality(Unharvested) <= Max(2 * num_workers, num_islands)
    /\ num_islands <= 2 * num_workers => Cardinality(Unharvested) <= 2 * num_workers

\* C5 witness: one worker, three islands, three tasks in flight.
C5_Witness ==
    /\ num_workers = 1
    /\ num_islands = 3
    /\ Cardinality(Unharvested) = 3

\* The initial fill is over and the main loop has harvested nothing yet;
\* no submission has failed.
FillComplete ==
    /\ pc \in {"loop", "sleep"}
    /\ completed_iterations = 0
    /\ Collected = {}
    /\ submit_failures = 0

\* The tasks island i gets from a fill of bpi per island, island by island,
\* out of a budget of max_iterations.
FillShare(bpi, i) == Min(bpi, Max(0, max_iterations - i * bpi))

HarvestedIsland == sampling_island[completed_iteration]

UnderQuota(i) == Len(island_pending[i]) < batch_per_island

FirstUnderQuota(i) == UnderQuota(i) /\ \A j \in Islands : j < i => ~UnderQuota(j)

BudgetRemains == next_iteration < total_iterations

\* A step of the replacement pass that hands a task to the pool, and the end
\* of a pass that handed none.
ReplacementSubmitted == pc = "replace" /\ Submitted' # Submitted

NoReplacement == pc = "replace" /\ pc' = "loop" /\ Submitted' = Submitted

\* The decrement of lines 450-453 for the harvested task.
IslandDecremented ==
    /\ completed_iterations' = completed_iterations + 1
    /\ InList(completed_iteration, island_pending[HarvestedIsland])
    /\ island_pending' = [island_pending EXCEPT
                             ![HarvestedIsland] = ListRemove(@, completed_iteration)]

\* At most one replacement per harvested result, with the iteration number
\* next_iteration, for an island under quota, while budget remains and
\* shutdown is not requested.
OneReplacement ==
    /\ Submitted' # Submitted => pc \in {"fill", "replace"}
    /\ ReplacementSubmitted =>
          /\ Submitted' = Submitted \cup {next_iteration}
          /\ sampling_island'[next_iteration] = island_id
          /\ UnderQuota(island_id)
          /\ BudgetRemains
          /\ ~shutdown_event
          /\ pc' = "loop"

IntegrationRaised == log_line.kind = "error"

C10_WorkerFailureLogged ==
    [][(Collected' # Collected /\ result'.error # None) =>
          /\ result'.iteration = completed_iteration'
          /\ log_line' = LogLine("warning", completed_iteration', result'.error)
          /\ UNCHANGED dbVars
          /\ pc' = "post"]_vars

\* C11: run_evolution called while the pool is not started (before start or
\* after stop) raises at once: that call submits nothing, samples nothing and
\* leaves the population and its current-island pointer as they were.
C11_NotStartedAborts ==
    [][/\ (pc = "idle" /\ pc' # "idle" /\ executor # "pool") =>
             /\ pc' = "raised"
             /\ UNCHANGED <<poolVars, dbVars, submit_failures>>
       /\ pc = "raised" =>
             /\ pc' = "raised"
             /\ UNCHANGED <<poolVars, dbVars, submit_failures>>
             /\ Submitted = {}
             /\ submit_failures = 0]_vars

\* C11 witness: run_evolution was called with the flag set and no pool (it
\* was stopped, or never started) and raised.
C11_Witness ==
    /\ pc = "raised"
    /\ executor = "none"
    /\ shutdown_event
    /\ Submitted = {}
    /\ db_programs = {[id |-> Seed, score |-> 0]}

\* A step that calls _submit_iteration: it hands a task to the pool or
\* fails to.
SubmissionStep == Submitted' # Submitted \/ submit_failures' # submit_failures

\* C12: a submission for island I samples with the current-island pointer
\* bound to I and leaves the pointer at the value it had before, whether
\* sampling returned or raised.
C12_PointerBoundAndRestored ==
    [][SubmissionStep =>
          /\ db_current_island' = db_current_island
          /\ \A it \in Submitted' \ Submitted : sampling_island'[it] = island_id]_vars

\* C12 witness: after a rotation of the pointer to island 1, a replacement
\* was sampled on island 0 and the pointer is still 1; a submission has
\* failed as well.
C12_Witness ==
    /\ pc = "loop"
    /\ db_current_island = 1
    /\ next_iteration > current_iteration
    /\ sampling_island[next_iteration - 1] = 0
    /\ submit_failures > 0

\* A step of a worker: a running task comes to its end.
WorkerStep ==
    \E it \in Iterations : futures[it] = "running" /\ futures'[it] \in {"finished", "failed"}

\* The population as _create_database_snapshot copies it.
LivePopulation == [programs |-> db_programs, current_island |-> db_current_island]

\* C13: a worker step changes neither the population nor any snapshot; the
\* snapshot of a task is the population at its submission and no later step
\* changes it; the result a task returns is made from its snapshot and its
\* sampled parent; the population changes in harvest steps of the scheduler
\* only.
C13_WorkersReadSnapshotsOnly ==
    [][/\ WorkerStep => UNCHANGED <<dbVars, task_args>>
       /\ \A it \in Submitted : task_args'[it] = task_args[it]
       /\ \A it \in Submitted' \ Submitted : task_args'[it].db_snapshot = LivePopulation
       /\ (Collected' # Collected /\ ResultHasChild(result')) =>
             /\ result'.prompt =
                   ProgramIds(task_args[completed_iteration'].db_snapshot.programs)
             /\ result'.parent_id = task_args[completed_iteration'].parent_id
       /\ dbVars' # dbVars => (pc = "loop" /\ Collected' # Collected)]_vars

\* C13 witness: a child was inserted and the pointer rotated after a task
\* was submitted; the task, now harvested, returned a prompt built from its
\* snapshot, which has neither the child nor the new pointer.
C13_Witness ==
    /\ pc = "post"
    /\ ResultHasChild(result)
    /\ result.prompt # ProgramIds(db_programs) \ {completed_iteration}
    /\ result.prompt = ProgramIds(task_args[completed_iteration].db_snapshot.programs)
    /\ task_args[completed_iteration].db_snapshot.current_island # db_current_island

\* ------------------------------------------------------ apply_diffs_to_code
\* A str is a sequence of characters.  MaxCodeLen, MaxSearchLen and
\* MaxReplaceLen bound the code, the search text and the replacement text
\* of the explored calls, MaxEdits the number of edits of one call.
MaxCodeLen == 3
MaxSearchLen == 2
MaxReplaceLen == 2
MaxEdits == 2

Backslash == "\\"
Chars == {"x", " ", Backslash}

\* str.isspace / \s.
Whitespace == {" ", "\n", "\t", "\r", "FF", "VT", "NBSP", "NNBSP"}
IsSpace(c) == c \in Whitespace

\* Octal escapes and group numbers of two digits are left out: "0" stands
\* for the escape \0 and the other digits for a reference to a group.
AsciiLetters ==
    {"a", "b", "c", "d", "e", "f", "g", "h", "i", "j", "k", "l", "m", "n", "o", "p", "q",
     "r", "s", "t", "u", "v", "w", "x", "y", "z"}
Digits == {"1", "2", "3", "4", "5", "6", "7", "8", "9"}

StringsUpTo(n) == UNION {[1 .. k -> Chars] : k \in 0 .. n}

\* needle occurs in haystack at index p.
StartsWithAt(haystack, needle, p) ==
    /\ p + Len(needle) - 1 <= Len(haystack)
    /\ \A k \in 1 .. Len(needle) : haystack[p + k - 1] = needle[k]

\* str.find, counted from 1; 0 when needle does not occur.
Find(haystack, needle) ==
    IF \E p \in 1 .. (Len(haystack) + 1) : StartsWithAt(haystack, needle, p)
    THEN CHOOSE p \in 1 .. (Len(haystack) + 1) :
            /\ StartsWithAt(haystack, needle, p)
            /\ \A q \in 1 .. (p - 1) : ~StartsWithAt(haystack, needle, q)
    ELSE 0

\* haystack with the characters from index from up to before index to
\* replaced by repl.
Splice(haystack, from, to, repl) ==
    SubSeq(haystack, 1, from - 1) \o repl \o SubSeq(haystack, to, Len(haystack))

Outcome(code, ok, raised) == [code |-> code, ok |-> ok, raised |-> raised]

\* _try_apply_exact: needle in haystack, haystack.replace(needle, repl, 1).
_try_apply_exact(haystack, needle, repl) ==
    LET p == Find(haystack, needle)
    IN  IF p # 0
        THEN Outcome(Splice(haystack, p, p + Len(needle), repl), TRUE, FALSE)
        ELSE Outcome(haystack, FALSE, FALSE)

\* str.strip.
RECURSIVE LStrip(_)
LStrip(s) == IF s # <<>> /\ IsSpace(Head(s)) THEN LStrip(Tail(s)) ELSE s

RECURSIVE RStrip(_)
RStrip(s) ==
    IF s # <<>> /\ IsSpace(s[Len(s)]) THEN RStrip(SubSeq(s, 1, Len(s) - 1)) ELSE s

Strip(s) == RStrip(LStrip(s))

\* re.split(r"\s+", s) for a stripped s: the parts between the runs of
\* whitespace; one empty part for the empty string.
RECURSIVE SplitFrom(_, _, _)
SplitFrom(s, k, cur) ==
    IF k > Len(s) THEN <<cur>>
    ELSE IF IsSpace(s[k])
         THEN IF IsSpace(s[k - 1])
              THEN SplitFrom(s, k + 1, cur)
              ELSE <<cur>> \o SplitFrom(s, k + 1, <<>>)
         ELSE SplitFrom(s, k + 1, Append(cur, s[k]))

\* _ws_regex_escape: the pattern is its escaped parts joined by \s+, given
\* here as the sequence of the parts.  The list of parts is never empty, so
\* the branch of line 143 is dead.
_ws_regex_escape(s) == SplitFrom(Strip(s), 1, <<>>)

\* The end of the run of whitespace that starts at index q.
RECURSIVE SkipSpaces(_, _)
SkipSpaces(haystack, q) ==
    IF q <= Len(haystack) /\ IsSpace(haystack[q]) THEN SkipSpaces(haystack, q + 1) ELSE q

\* The pattern matched at index p: the index after the match, 0 for no
\* match.  A part has no whitespace, so the greedy \s+ takes the whole run.
RECURSIVE MatchParts(_, _, _)
MatchParts(haystack, parts, p) ==
    IF ~StartsWithAt(haystack, Head(parts), p) THEN 0
    ELSE LET q == p + Len(Head(parts))
         IN  IF Len(parts) = 1 THEN q
             ELSE LET e == SkipSpaces(haystack, q)
                  IN  IF e = q THEN 0 ELSE MatchParts(haystack, Tail(parts), e)

\* pattern.search: the leftmost index with a match, 0 for none.
PatternSearch(haystack, parts) ==
    IF \E p \in 1 .. (Len(haystack) + 1) : MatchParts(haystack, parts, p) # 0
    THEN CHOOSE p \in 1 .. (Len(haystack) + 1) :
            /\ MatchParts(haystack, parts, p) # 0
            /\ \A q \in 1 .. (p - 1) : MatchParts(haystack, parts, q) = 0
    ELSE 0

\* The escapes a replacement template of re knows.
TemplateEscapes ==
    [c \in {"0", "a", "b", "f", "n", "r", "t", "v", Backslash} |->
        CASE c = "0" -> "NUL"
          [] c = "a" -> "BEL"
          [] c = "b" -> "BS"
          [] c = "f" -> "FF"
          [] c = "n" -> "\n"
          [] c = "r" -> "\r"
          [] c = "t" -> "\t"
          [] c = "v" -> "VT"
          [] c = Backslash -> Backslash]

Expanded(ok, text) == [ok |-> ok, text |-> text]

\* pattern.sub reads repl as a template: a backslash starts an escape, and
\* re.error is raised (ok = FALSE) for a backslash at the end, for an unknown
\* escape of a letter, and for a reference to a group (the pattern has
\* none); a backslash before any other character stays.
RECURSIVE ExpandTemplate(_)
ExpandTemplate(repl) ==
    IF repl = <<>> THEN Expanded(TRUE, <<>>)
    ELSE IF Head(repl) # Backslash
         THEN LET rest == ExpandTemplate(Tail(repl))
              IN  Expanded(rest.ok, <<Head(repl)>> \o rest.text)
    ELSE IF Len(repl) = 1 THEN Expanded(FALSE, <<>>)
    ELSE LET c == repl[2]
             rest == ExpandTemplate(Tail(Tail(repl)))
         IN  IF c \in DOMAIN TemplateEscapes
             THEN Expanded(rest.ok, <<TemplateEscapes[c]>> \o rest.text)
             ELSE IF c \in AsciiLetters \cup Digits
             THEN Expanded(FALSE, <<>>)
             ELSE Expanded(rest.ok, <<Backslash, c>> \o rest.text)

\* _try_apply_ws_tolerant: pattern.search, then pattern.sub(repl, haystack,
\* count=1), which can raise.
_try_apply_ws_tolerant(haystack, needle, repl) ==
    LET parts == _ws_regex_escape(needle)
        p == PatternSearch(haystack, parts)
        template == ExpandTemplate(repl)
    IN  IF p = 0 THEN Outcome(haystack, FALSE, FALSE)
        ELSE IF ~template.ok THEN Outcome(haystack, FALSE, TRUE)
        ELSE Outcome(Splice(haystack, p, MatchParts(haystack, parts, p), template.text),
                     TRUE, FALSE)

\* The call of the worked example: search "foo();", replace "bar();" over
\* "a();\nfoo();\nb();".
ExampleCode == <<"a", "(", ")", ";", "\n", "f", "o", "o", "(", ")", ";", "\n", "b", "(", ")", ";">>
ExampleSearch == <<"f", "o", "o", "(", ")", ";">>
ExampleReplace == <<"b", "a", "r", "(", ")", ";">>
ExampleResult == <<"a", "(", ")", ";", "\n", "b", "a", "r", "(", ")", ";", "\n", "b", "(", ")", ";">>

\* The edits as the caller passes them (a DiffBlock, or a dict that may
\* lack its "search" key) and lines 167-174, which make a DiffBlock of each.
DiffBlock(search, replace) == [search |-> search, replace |-> replace]

RawEdits ==
    [has_search : {TRUE}, search : StringsUpTo(MaxSearchLen),
     replace : StringsUpTo(MaxReplaceLen)]
        \cup [has_search : {FALSE}, search : {<<>>}, replace : StringsUpTo(MaxReplaceLen)]
        \cup {[has_search |-> TRUE, search |-> ExampleSearch, replace |-> ExampleReplace]}

AsDiffBlock(raw) ==
    DiffBlock(IF raw.has_search THEN raw.search ELSE <<>>, raw.replace)

\* Lines 176-198, one pass of the loop over code: how the edit fared
\* ("empty", "exact", "tolerant", "miss", or "raised" when pattern.sub
\* raised) and the code after it.
Pass(how, code) == [how |-> how, code |-> code]

\* Mutant of ApplyPass: the test of line 176 for an empty search text is
\* missing.
ApplyPass_NoEmptyTest(code, edit) ==
    LET exact == _try_apply_exact(code, edit.search, edit.replace)
        tolerant == _try_apply_ws_tolerant(code, edit.search, edit.replace)
    IN  IF exact.ok THEN Pass("exact", exact.code)
        ELSE IF tolerant.raised THEN Pass("raised", code)
        ELSE IF tolerant.ok THEN Pass("tolerant", tolerant.code)
        ELSE Pass("miss", code)

ApplyPass(code, edit) ==
    IF edit.search = <<>> THEN Pass("empty", code)
    ELSE LET exact == _try_apply_exact(code, edit.search, edit.replace)
             tolerant == _try_apply_ws_tolerant(code, edit.search, edit.replace)
         IN  IF exact.ok THEN Pass("exact", exact.code)
             ELSE IF tolerant.raised THEN Pass("raised", code)
             ELSE IF tolerant.ok THEN Pass("tolerant", tolerant.code)
             ELSE Pass("miss", code)

\* apply_diffs_to_code(code, diff_blocks) is called.
ApplyInit ==
    /\ Constructed(1, 1, 0, 0, NoTarget)
    /\ new_code \in StringsUpTo(MaxCodeLen) \cup {ExampleCode}
    /\ prev_code = new_code
    /\ applied = 0
    /\ skipped = 0
    /\ diff_index = 0
    /\ db = NoDiff
    /\ stats = NoStats
    /\ apply_pc = "loop"
    /\ SanIdle
    /\ ParseIdle
    /\ WorkIdle
    /\ DistIdle
    /\ StepIdle

\* One pass of the loop of line 166 for the next edit of diff_blocks.
ApplyEdit ==
    /\ apply_pc = "loop"
    /\ diff_index < MaxEdits
    /\ \E raw \in RawEdits :
          \E pass \in {ApplyPass(new_code, AsDiffBlock(raw))} :
              /\ db' = AsDiffBlock(raw)
              /\ prev_code' = new_code
              /\ new_code' = pass.code
              /\ applied' = applied + (IF pass.how \in {"exact", "tolerant"} THEN 1 ELSE 0)
              /\ skipped' = skipped + (IF pass.how \in {"empty", "miss"} THEN 1 ELSE 0)
              /\ apply_pc' = IF pass.how = "raised" THEN "raised" ELSE "loop"
    /\ diff_index' = diff_index + 1
    /\ UNCHANGED <<schedVars, stepVars, workVars, distVars, sanVars, parseVars,
                   stats>>

\* Line 205: diff_blocks is exhausted, the code and the stats are returned.
ApplyReturn ==
    /\ apply_pc = "loop"
    /\ apply_pc' = "returned"
    /\ stats' = [applied_count |-> applied, skipped_count |-> skipped,
                 total |-> applied + skipped]
    /\ UNCHANGED <<schedVars, stepVars, workVars, distVars, sanVars, parseVars,
                   new_code, applied, skipped, diff_index, db, prev_code>>

ApplyNext ==
    \/ ApplyEdit
    \/ ApplyReturn

ApplySpec == ApplyInit /\ [][ApplyNext]_vars

\* A step of apply_diffs_to_code that has taken the next edit, db'.
EditTaken == diff_index' = diff_index + 1

\* C14: an edit with an empty or absent search text is skipped: the code is
\* unchanged by it, skipped grows by one, applied does not, and the loop goes
\* on with the remaining edits.
C14_EmptySearchSkipped ==
    [][(EditTaken /\ db'.search = <<>>) =>
          /\ new_code' = new_code
          /\ skipped' = skipped + 1
          /\ applied' = applied
          /\ apply_pc' = "loop"]_vars

\* C14 witness: after an applied edit, an edit with an empty search text
\* was skipped and left the changed code as it was.
C14_Witness ==
    /\ apply_pc = "loop"
    /\ diff_index = 2
    /\ db.search = <<>>
    /\ db.replace # <<>>
    /\ applied = 1
    /\ skipped = 1
    /\ new_code = prev_code
    /\ new_code # <<>>

\* The first place where the search text matches the code, exactly or else
\* with its runs of whitespace taken for any run: the index of the match and
\* the index after it; from = 0 for no match.
FirstMatch(code, search) ==
    IF Find(code, search) # 0
    THEN [from |-> Find(code, search), to |-> Find(code, search) + Len(search)]
    ELSE LET parts == _ws_regex_escape(search)
             p == PatternSearch(code, parts)
         IN  IF p = 0 THEN [from |-> 0, to |-> 0]
             ELSE [from |-> p, to |-> MatchParts(code, parts, p)]

\* C15: the edits are applied in input order, each to the code the edits
\* before it produced, and an applied edit replaces the first match of its
\* search text, and nothing else, by its replacement text verbatim; the
\* worked example gives "a();\nbar();\nb();" with applied = 1, skipped = 0.
C15_EditsInOrderVerbatim ==
    [][EditTaken =>
          /\ prev_code' = new_code
          /\ apply_pc' = "loop"
          /\ applied' \in {applied, applied + 1}
          /\ applied' = applied => new_code' = new_code
          /\ applied' = applied + 1 =>
                LET m == FirstMatch(new_code, db'.search)
                IN  /\ m.from # 0
                    /\ new_code' = Splice(new_code, m.from, m.to, db'.replace)
          /\ (diff_index = 0 /\ new_code = ExampleCode
                  /\ db' = DiffBlock(ExampleSearch, ExampleReplace)) =>
                (new_code' = ExampleResult /\ applied' = 1 /\ skipped' = 0)]_vars

\* The search text occurs in the code with its runs of whitespace taken for
\* any run; a search text of whitespace alone occurs where the code has
\* whitespace.
OccursModuloWhitespace(code, search) ==
    IF Strip(search) = <<>>
    THEN \E k \in 1 .. Len(code) : IsSpace(code[k])
    ELSE PatternSearch(code, _ws_regex_escape(search)) # 0

\* C16: an edit whose non-empty search text occurs in the code neither
\* exactly nor modulo runs of whitespace is skipped: the code is unchanged,
\* nothing is raised, the loop goes on, and on return applied + skipped =
\* total = the number of edits.
C16_MissSkippedAndCounted ==
    [][/\ (EditTaken /\ db'.search # <<>> /\ Find(new_code, db'.search) = 0
            /\ ~OccursModuloWhitespace(new_code, db'.search)) =>
             /\ new_code' = new_code
             /\ skipped' = skipped + 1
             /\ applied' = applied
             /\ apply_pc' = "loop"
       /\ apply_pc' = "returned" =>
             /\ stats'.total = stats'.applied_count + stats'.skipped_count
             /\ stats'.total = diff_index']_vars

\* --------------------------------------------------- patch_sanitizer.py
\* A text is a sequence of characters, one string of length one per
\* character; characters that cannot be typed are named: "UMINUS" is U+2212,
\* "NBSP" U+00A0, "NNBSP" U+202F, "ZWSP" U+200B, "ZWNJ" U+200C, "ZWJ" U+200D,
\* "WJ" U+2060, "BOM" U+FEFF and "GRAVE" the backtick U+0060.
Newline == "\n"
ZeroWidth == {"ZWSP", "ZWNJ", "ZWJ", "WJ", "BOM"}
NonBreaking == {"NBSP", "NNBSP"}
UnicodeMinus == {"UMINUS"}
DecimalDigits == Digits \cup {"0"}
HexDigits == DecimalDigits \cup {"a", "b", "c", "d", "e", "f"}
UpperCase ==
    [c \in {"A", "B", "C", "D", "E", "F", "G", "H", "I", "J", "K", "L", "M", "N", "O", "P",
            "Q", "R", "S", "T", "U", "V", "W", "X", "Y", "Z"} |->
        CASE c = "A" -> "a" [] c = "B" -> "b" [] c = "C" -> "c" [] c = "D" -> "d"
          [] c = "E" -> "e" [] c = "F" -> "f" [] c = "G" -> "g" [] c = "H" -> "h"
          [] c = "I" -> "i" [] c = "J" -> "j" [] c = "K" -> "k" [] c = "L" -> "l"
          [] c = "M" -> "m" [] c = "N" -> "n" [] c = "O" -> "o" [] c = "P" -> "p"
          [] c = "Q" -> "q" [] c = "R" -> "r" [] c = "S" -> "s" [] c = "T" -> "t"
          [] c = "U" -> "u" [] c = "V" -> "v" [] c = "W" -> "w" [] c = "X" -> "x"
          [] c = "Y" -> "y" [] c = "Z" -> "z"]

\* str.lower, and the characters of \w.
LowerChar(c) == IF c \in DOMAIN UpperCase THEN UpperCase[c] ELSE c
Lower(s) == [k \in 1 .. Len(s) |-> LowerChar(s[k])]
IsWord(c) == LowerChar(c) \in AsciiLetters \cup DecimalDigits \cup {"_"}

\* The character at index p, "" past either end.
CharAt(s, p) == IF p \in 1 .. Len(s) THEN s[p] ELSE ""

\* str.startswith, and the same without regard to case (re.I).
StartsWith(s, prefix) == StartsWithAt(s, prefix, 1)
StartsWithAny(s, prefixes) == \E prefix \in prefixes : StartsWith(s, prefix)
StartsWithNoCase(s, prefix) == StartsWith(Lower(s), Lower(prefix))

\* The index after the longest run of characters of a class that starts at
\* index p: what a greedy \s*, \d+ or \w+ consumes.
RECURSIVE RunEnd(_, _, _)
RunEnd(s, p, class) ==
    IF p <= Len(s) /\ s[p] \in class THEN RunEnd(s, p + 1, class) ELSE p

\* str.find from index p on, counted from 1; 0 when needle does not occur.
FindFrom(haystack, needle, p) ==
    LET hits == {q \in p .. (Len(haystack) - Len(needle) + 1) :
                    StartsWithAt(haystack, needle, q)}
    IN  IF hits = {} THEN 0 ELSE CHOOSE q \in hits : \A r \in hits : q <= r

\* str.count: the occurrences of needle that do not overlap, from index p on.
RECURSIVE CountFrom(_, _, _)
CountFrom(haystack, needle, p) ==
    IF FindFrom(haystack, needle, p) = 0 THEN 0
    ELSE 1 + CountFrom(haystack, needle, FindFrom(haystack, needle, p) + Len(needle))

\* str.split("\n") and "\n".join.
RECURSIVE SplitAt(_, _)
SplitAt(s, p) ==
    LET nl == FindFrom(s, <<Newline>>, p)
    IN  IF nl = 0 THEN <<SubSeq(s, p, Len(s))>>
        ELSE <<SubSeq(s, p, nl - 1)>> \o SplitAt(s, nl + 1)
Split(s) == SplitAt(s, 1)

RECURSIVE Join(_)
Join(lines) ==
    IF lines = <<>> THEN <<>>
    ELSE IF Len(lines) = 1 THEN lines[1]
    ELSE lines[1] \o <<Newline>> \o Join(Tail(lines))

\* str.splitlines on a text whose only line boundary is "\n": the lines of
\* split("\n") without the empty one after a final newline.
SplitLines(s) ==
    IF s = <<>> THEN <<>>
    ELSE IF s[Len(s)] = Newline THEN Split(SubSeq(s, 1, Len(s) - 1))
    ELSE Split(s)

\* _normalize_text: CR LF and CR become LF, zero-width characters go, a
\* non-breaking space becomes a space and the Unicode minus a hyphen.
_normalize_text(s) ==
    LET kept == SelectSeq([k \in 1 .. Len(s) |-> k],
                          LAMBDA k : /\ ~(s[k] = "\r" /\ CharAt(s, k + 1) = Newline)
                                     /\ s[k] \notin ZeroWidth)
    IN  [i \in 1 .. Len(kept) |->
            LET c == s[kept[i]]
            IN  IF c = "\r" THEN Newline
                ELSE IF c \in NonBreaking THEN " "
                ELSE IF c \in UnicodeMinus THEN "-"
                ELSE c]

\* TARGET and _ALLOWED with the environment unset, and the literals of the
\* module.
Slash == "/"
ApiPy == <<"a", "p", "i", ".", "p", "y">>
AppPy == <<"a", "p", "p", ".", "p", "y">>
DataLayerPy == <<"d", "a", "t", "a", "_", "l", "a", "y", "e", "r", ".", "p", "y">>
TARGET == ApiPy
_ALLOWED == {TARGET, DataLayerPy}
MAX_LINES == 5000

Backtick == "GRAVE"
Fence == <<Backtick, Backtick, Backtick>>
OldMark == <<"-", "-", "-">>
NewMark == <<"+", "+", "+">>
HunkMark == <<"@", "@">>
OldPrefix == OldMark \o <<" ", "a", Slash>>
NewPrefix == NewMark \o <<" ", "b", Slash>>
DiffTag == <<"d", "i", "f", "f">>
PatchTag == <<"p", "a", "t", "c", "h">>
DiffGit == DiffTag \o <<" ", "-", "-", "g", "i", "t">>
IndexWord == <<"i", "n", "d", "e", "x", " ">>
FileMode == <<" ", "f", "i", "l", "e", " ", "m", "o", "d", "e", " ">>
NewFileMode == <<"n", "e", "w">> \o FileMode
DeletedFileMode == <<"d", "e", "l", "e", "t", "e", "d">> \o FileMode
SimilarityIndex == <<"s", "i", "m", "i", "l", "a", "r", "i", "t", "y", " ">> \o IndexWord
Rename == <<"r", "e", "n", "a", "m", "e", " ">>
RenameFrom == Rename \o <<"f", "r", "o", "m", " ">>
RenameTo == Rename \o <<"t", "o", " ">>

\* \d+ from index p up to the end of the line.
DigitsToEnd(s, p) == p <= Len(s) /\ RunEnd(s, p, DecimalDigits) = Len(s) + 1

\* _RE_GIT_HDRS under re.I, on one line: diff --git, index, new or deleted
\* file mode, similarity index and rename.
IndexHeader(l) ==
    LET h1 == RunEnd(l, Len(IndexWord) + 1, HexDigits)
        h2 == RunEnd(l, h1 + 1, HexDigits)
    IN  /\ StartsWith(l, IndexWord)
        /\ h1 > Len(IndexWord) + 1
        /\ CharAt(l, h1) = "."
        /\ h2 > h1 + 1
        /\ \/ h2 = Len(l) + 1
           \/ CharAt(l, h2) = " " /\ DigitsToEnd(l, h2 + 1)

SimilarityHeader(l) ==
    LET d == RunEnd(l, Len(SimilarityIndex) + 1, DecimalDigits)
    IN  /\ StartsWith(l, SimilarityIndex)
        /\ d > Len(SimilarityIndex) + 1
        /\ CharAt(l, d) = "%"
        /\ d = Len(l)

IsGitHeader(ln) ==
    LET l == Lower(ln)
    IN  \/ StartsWith(l, DiffGit \o <<" ">>)
        \/ IndexHeader(l)
        \/ StartsWith(l, NewFileMode) /\ DigitsToEnd(l, Len(NewFileMode) + 1)
        \/ StartsWith(l, DeletedFileMode) /\ DigitsToEnd(l, Len(DeletedFileMode) + 1)
        \/ SimilarityHeader(l)
        \/ StartsWith(l, RenameFrom) /\ Len(l) > Len(RenameFrom)
        \/ StartsWith(l, RenameTo) /\ Len(l) > Len(RenameTo)

\* _strip_git_headers.
_strip_git_headers(lines) == SelectSeq(lines, LAMBDA ln : ~IsGitHeader(ln))

\* _RE_OLD and _RE_NEW: the mark, whitespace, and group 1, the rest of the
\* line.
MatchesHeader(ln, mark) == StartsWith(ln, mark) /\ IsSpace(CharAt(ln, Len(mark) + 1))
HeaderPath(ln, mark) == SubSeq(ln, RunEnd(ln, Len(mark) + 1, Whitespace), Len(ln))

\* \d+(?:,\d+)? at index p: the index after it, 0 when it does not match.
HunkRange(s, p) ==
    LET d1 == RunEnd(s, p, DecimalDigits)
        d2 == RunEnd(s, d1 + 1, DecimalDigits)
    IN  IF p < 1 \/ d1 = p THEN 0
        ELSE IF CharAt(s, d1) = "," /\ d2 > d1 + 1 THEN d2
        ELSE d1

\* The part the two hunk patterns share, ^@@\s*-(range)\s+\+(range): whether
\* it matches, the two ranges and the index after them.
HunkStart(s) ==
    LET Ranges(p1, r1, p2, r2) ==
            IF /\ StartsWith(s, HunkMark)
               /\ CharAt(s, p1) = "-"
               /\ r1 # 0
               /\ p2 > r1
               /\ CharAt(s, p2) = "+"
               /\ r2 # 0
            THEN [ok |-> TRUE, old |-> SubSeq(s, p1 + 1, r1 - 1),
                  new |-> SubSeq(s, p2 + 1, r2 - 1), end |-> r2]
            ELSE [ok |-> FALSE, old |-> <<>>, new |-> <<>>, end |-> 0]
        NewRange(p1, r1, p2) == Ranges(p1, r1, p2, HunkRange(s, p2 + 1))
        OldRange(p1, r1) == NewRange(p1, r1, RunEnd(s, r1, Whitespace))
        Minus(p1) == OldRange(p1, HunkRange(s, p1 + 1))
    IN  Minus(RunEnd(s, Len(HunkMark) + 1, Whitespace))

\* _RE_VALID_HUNK: \s*@@ after the ranges, then the end of the line or
\* whitespace and anything.
ValidHunk(s) ==
    LET Closed(p3) ==
            /\ StartsWithAt(s, HunkMark, p3)
            /\ \/ p3 + Len(HunkMark) = Len(s) + 1
               \/ IsSpace(CharAt(s, p3 + Len(HunkMark)))
        Valid(h) == h.ok /\ Closed(RunEnd(s, h.end, Whitespace))
    IN  Valid(HunkStart(s))

\* _RE_FIX_HUNK: \s+@ after the ranges, then anything.
FixableHunk(s) ==
    LET AtSign(h, p3) == p3 > h.end /\ CharAt(s, p3) = "@"
        Fixable(h) == h.ok /\ AtSign(h, RunEnd(s, h.end, Whitespace))
    IN  Fixable(HunkStart(s))

\* f"@@ -{mf.group(2)} +{mf.group(3)} @@"
FixedHunk(s) ==
    LET Fixed(h) == HunkMark \o <<" ", "-">> \o h.old \o <<" ", "+">> \o h.new \o <<" ">> \o HunkMark
    IN  Fixed(HunkStart(s))

\* The lines that a loop over lines appends, one for each.
Map(lines, Op(_)) == [k \in 1 .. Len(lines) |-> Op(lines[k])]

\* _RE_FENCE_BLOCKS.finditer from index pos on: three backticks, the longest
\* tag, the longest whitespace, and the body up to the next three backticks.
RECURSIVE FenceBlocks(_, _)
FenceBlocks(text, pos) ==
    LET Block(p, t, r, c) ==
            IF p = 0 THEN <<>>
            ELSE IF c = 0 THEN <<>>
            ELSE <<[tag |-> SubSeq(text, p + Len(Fence), t - 1), body |-> SubSeq(text, r, c - 1)]>>
                    \o FenceBlocks(text, c + Len(Fence))
        Body(p, t, r) == Block(p, t, r, FindFrom(text, Fence, r))
        Tag(p, t) == Body(p, t, RunEnd(text, t, Whitespace))
        Opened(p) ==
            Tag(p, RunEnd(text, p + Len(Fence), {c \in {text[k] : k \in 1 .. Len(text)} : IsWord(c)}))
    IN  Opened(FindFrom(text, Fence, pos))

\* The score of a fenced block: 5 for a diff or patch tag, one for each
\* occurrence of a diff token in the body.
DiffTokens ==
    <<OldMark \o <<" ">>, NewMark \o <<" ">>, HunkMark \o <<" ">>, DiffGit, <<Newline, "+">>,
      <<Newline, "-">>, IndexWord>>
RECURSIVE SumCounts(_, _)
SumCounts(body, k) ==
    IF k > Len(DiffTokens) THEN 0
    ELSE CountFrom(body, DiffTokens[k], 1) + SumCounts(body, k + 1)
BlockScore(m) ==
    (IF Lower(m.tag) \in {DiffTag, PatchTag} THEN 5 ELSE 0) + SumCounts(m.body, 1)

\* _choose_best_block: the text when it has no fenced block, else the body
\* of the first block of the highest score (the sort is stable).
_choose_best_block(text) ==
    LET Best(scores) ==
            CHOOSE k \in 1 .. Len(scores) :
                /\ \A j \in 1 .. Len(scores) : scores[j] <= scores[k]
                /\ \A j \in 1 .. (k - 1) : scores[j] < scores[k]
        Chosen(blocks) ==
            IF blocks = <<>> THEN text ELSE blocks[Best(Map(blocks, BlockScore))].body
    IN  Chosen(FenceBlocks(text, 1))

\* _retarget_path: strip, drop a leading a/ or b/, app.py and every path
\* outside the allow-list become the target.
_retarget_path(path) ==
    LET stripped == Strip(path)
        bare == IF StartsWithAny(stripped, {<<"a", Slash>>, <<"b", Slash>>})
                THEN SubSeq(stripped, 3, Len(stripped)) ELSE stripped
        mapped == IF bare = AppPy THEN TARGET ELSE bare
    IN  IF mapped \notin _ALLOWED THEN TARGET ELSE mapped

\* Lines 239-252: headers are rewritten with the retargeted path, a hunk
\* header that _RE_FIX_HUNK matches is rewritten, other lines stay.
FixLine(ln) ==
    IF MatchesHeader(ln, OldMark) THEN OldPrefix \o _retarget_path(HeaderPath(ln, OldMark))
    ELSE IF MatchesHeader(ln, NewMark) THEN NewPrefix \o _retarget_path(HeaderPath(ln, NewMark))
    ELSE IF FixableHunk(ln) THEN FixedHunk(ln)
    ELSE ln

\* _keep_diff_line, and the filter of line 255.
_keep_diff_line(ln) ==
    \/ StartsWithAny(ln, {OldPrefix, NewPrefix})
    \/ ValidHunk(ln)
    \/ CharAt(ln, 1) \in {"+", "-", " "}
KeptLine(ln) ==
    \/ _keep_diff_line(ln)
    \/ StartsWithAny(ln, {OldMark \o <<" ">>, NewMark \o <<" ">>, HunkMark})

\* Lines 257-260: headers for the target are put first when a hunk is there
\* and the two kinds of header are not both there.
TargetHeaders == <<OldPrefix \o TARGET, NewPrefix \o TARGET>>
AnyLine(lines, prefix) == \E k \in 1 .. Len(lines) : StartsWith(lines[k], prefix)
InjectHeaders(lines) ==
    LET has_hunk == \E k \in 1 .. Len(lines) :
                        StartsWith(lines[k], HunkMark) \/ ValidHunk(lines[k])
        has_headers == AnyLine(lines, OldPrefix) /\ AnyLine(lines, NewPrefix)
    IN  IF has_hunk /\ ~has_headers THEN TargetHeaders \o lines ELSE lines

\* Lines 262-269: a hunk header that is not valid and can be fixed is fixed.
NormLine(ln) ==
    IF StartsWith(ln, HunkMark) /\ ~ValidHunk(ln) /\ FixableHunk(ln) THEN FixedHunk(ln) ELSE ln

\* _coerce_hunk_lines: in_hunk is set by a hunk header and cleared by a
\* header; inside a hunk a line without +, - or space gets a space in front,
\* outside a hunk every line that is not a header is dropped.
RECURSIVE CoerceFrom(_, _)
CoerceFrom(lines, in_hunk) ==
    IF lines = <<>> THEN <<>>
    ELSE LET ln == Head(lines)
         IN  IF StartsWith(ln, HunkMark) THEN <<ln>> \o CoerceFrom(Tail(lines), TRUE)
             ELSE IF StartsWithAny(ln, {OldPrefix, NewPrefix})
             THEN <<ln>> \o CoerceFrom(Tail(lines), FALSE)
             ELSE IF in_hunk
             THEN (IF StartsWithAny(ln, {<<"+">>, <<"-">>, <<" ">>}) THEN <<ln>>
                   ELSE IF ln = <<>> THEN << <<" ">> >>
                   ELSE <<<<" ">> \o ln>>)
                      \o CoerceFrom(Tail(lines), in_hunk)
             ELSE CoerceFrom(Tail(lines), in_hunk)
_coerce_hunk_lines(lines) == CoerceFrom(lines, FALSE)

\* Lines 279-285: when the text does not start with the two headers of the
\* target, they replace its first two lines, or are put in front of a text
\* of fewer than three lines.
HeaderText == Join(TargetHeaders) \o <<Newline>>
ForceHeaders(out) ==
    LET n1 == FindFrom(out, <<Newline>>, 1)
        n2 == IF n1 = 0 THEN 0 ELSE FindFrom(out, <<Newline>>, n1 + 1)
    IN  IF StartsWith(out, HeaderText) THEN out
        ELSE IF n2 # 0 THEN HeaderText \o SubSeq(out, n2 + 1, Len(out))
        ELSE HeaderText \o out

\* extract_raw_patch.
extract_raw_patch(text) ==
    LET Ended(forced) ==
            IF forced[Len(forced)] # Newline THEN forced \o <<Newline>> ELSE forced
        Validated(out) ==
            IF FindFrom(out, HunkMark, 1) = 0 THEN <<>>
            ELSE IF ~(AnyLine(SplitLines(out), <<"+">>) \/ AnyLine(SplitLines(out), <<"-">>))
            THEN <<>>
            ELSE Ended(ForceHeaders(out))
        Limited(split) ==
            IF Len(split) > MAX_LINES THEN SubSeq(split, 1, MAX_LINES) ELSE split
        candidate == _normalize_text(_choose_best_block(_normalize_text(text)))
        lines == Limited(Split(candidate))
        fixed == Map(_strip_git_headers(lines), FixLine)
        kept == InjectHeaders(SelectSeq(fixed, KeptLine))
    IN  IF Strip(text) = <<>> THEN <<>>
        ELSE Validated(Strip(Join(_coerce_hunk_lines(Map(kept, NormLine)))))

\* ------------------------------------ code_utils.extract_diffs (110-129)
SearchWord == <<"s", "e", "a", "r", "c", "h">>
ReplaceWord == <<"r", "e", "p", "l", "a", "c", "e">>
FileWord == <<"f", "i", "l", "e">>
OpenMarker == <<"<", "<", "<", "<", "<", "<", "<">>
Separator == <<Newline, "=", "=", "=", "=", "=", "=", "=", Newline>>
CloseMarker == <<Newline, ">", ">", ">", ">", ">", ">", ">">>

\* The tags of _TRIPLE_FENCE in the order of its alternation.
FenceTags ==
    <<DiffTag, PatchTag, <<"p", "y", "t", "h", "o", "n">>, <<"p", "y">>,
      <<"j", "a", "v", "a", "s", "c", "r", "i", "p", "t">>, <<"j", "s">>, <<"t", "s">>,
      <<"t", "s", "x">>, <<"j", "s", "o", "n">>, <<"y", "a", "m", "l">>, <<"y", "m", "l">>,
      <<"t", "e", "x", "t">>, <<"m", "d">>, <<"h", "t", "m", "l">>, <<"b", "a", "s", "h">>,
      <<"s", "h">>>>

\* The index after the optional tag at index p: the first alternative that
\* occurs there without regard to case, else none.
AfterFenceTag(text, p) ==
    LET found == {k \in 1 .. Len(FenceTags) : StartsWithAt(Lower(text), FenceTags[k], p)}
    IN  IF found = {} THEN p
        ELSE p + Len(FenceTags[CHOOSE k \in found : \A j \in found : k <= j])

\* _TRIPLE_FENCE.findall from index pos on: group 1 of every match.
RECURSIVE TripleFence(_, _)
TripleFence(text, pos) ==
    LET Group(p, r, c) ==
            IF p = 0 THEN <<>>
            ELSE IF c = 0 THEN <<>>
            ELSE <<SubSeq(text, r, c - 1)>> \o TripleFence(text, c + Len(Fence))
        Body(p, r) == Group(p, r, FindFrom(text, Fence, r))
        Opened(p) == Body(p, RunEnd(text, AfterFenceTag(text, p + Len(Fence)), Whitespace))
    IN  Opened(FindFrom(text, Fence, pos))

\* _strip_code_fences: group 1 of the first match, the text without one.
_strip_code_fences(text) ==
    LET Group1(groups) == IF groups = <<>> THEN text ELSE groups[1]
    IN  Group1(TripleFence(text, 1))

\* The line starts of a text.
LineStarts(s) == {1} \cup {k + 1 : k \in {j \in 1 .. Len(s) : s[j] = Newline}}

\* ^\s*FILE\s*:\s*(.+)$ at the line start p of a stripped text, re.M and
\* re.I: the index of the first character of group 1, 0 without a match.
FileHeaderAt(body, p) ==
    LET q == RunEnd(body, p, Whitespace)
        c == RunEnd(body, q + Len(FileWord), Whitespace)
        d == RunEnd(body, c + 1, Whitespace)
    IN  IF /\ StartsWithAt(Lower(body), FileWord, q)
           /\ CharAt(body, c) = ":"
           /\ d <= Len(body)
        THEN d ELSE 0

\* re.sub of ^\s*FILE\s*:\s*.+\n? by the empty string from index pos on.
RECURSIVE RemoveFileHeaders(_, _)
RemoveFileHeaders(body, pos) ==
    LET Cut(p, nl) ==
            IF nl = 0 THEN SubSeq(body, pos, p - 1)
            ELSE SubSeq(body, pos, p - 1) \o RemoveFileHeaders(body, nl + 1)
        Header(p) == Cut(p, FindFrom(body, <<Newline>>, FileHeaderAt(body, p)))
        First(starts) ==
            IF starts = {} THEN SubSeq(body, pos, Len(body))
            ELSE Header(CHOOSE p \in starts : \A o \in starts : p <= o)
    IN  First({p \in LineStarts(body) : p >= pos /\ p <= Len(body) /\ FileHeaderAt(body, p) # 0})

\* The newlines that a greedy \s*\n can end on when the whitespace starts
\* at index p; the last of them is tried first.
NewlinesOfRun(body, p) ==
    {n \in p .. (RunEnd(body, p, Whitespace) - 1) : body[n] = Newline}

\* The matches of style A, <<<<<<<\s*SEARCH\s*\n(.*?)\n=======\n(.*?)\n
\* >>>>>>>\s*REPLACE\s*$ under re.S and re.I: where the marker starts, the
\* newline before group 1, where the separator starts and where the closing
\* marker starts.
StyleAMatches(body) ==
    LET lb == Lower(body)
        places == 1 .. Len(body)
        opens == {a \in places :
                     /\ StartsWithAt(body, OpenMarker, a)
                     /\ StartsWithAt(lb, SearchWord, RunEnd(body, a + Len(OpenMarker), Whitespace))}
        seps == {m \in places : StartsWithAt(body, Separator, m)}
        closes == {k \in places :
                      /\ StartsWithAt(body, CloseMarker, k)
                      /\ LET w == RunEnd(body, k + Len(CloseMarker), Whitespace)
                         IN  /\ StartsWithAt(lb, ReplaceWord, w)
                             /\ RunEnd(body, w + Len(ReplaceWord), Whitespace) = Len(body) + 1}
    IN  {t \in opens \X places \X seps \X closes :
            /\ t[2] \in NewlinesOfRun(body,
                    RunEnd(body, t[1] + Len(OpenMarker), Whitespace) + Len(SearchWord))
            /\ t[3] > t[2]
            /\ t[4] >= t[3] + Len(Separator)}

\* The matches of style B, SEARCH\s*:\s*\n(.*?)\nREPLACE\s*:\s*\n(.*)$
\* under re.S and re.I: where SEARCH starts, the newline before group 1,
\* where \nREPLACE starts and the newline before group 2.
ColonAfter(body, p) == RunEnd(body, p, Whitespace)
StyleBMatches(body) ==
    LET lb == Lower(body)
        places == 1 .. Len(body)
        opens == {a \in places :
                     /\ StartsWithAt(lb, SearchWord, a)
                     /\ CharAt(body, ColonAfter(body, a + Len(SearchWord))) = ":"}
        mids == {m \in places :
                    /\ StartsWithAt(lb, <<Newline>> \o ReplaceWord, m)
                    /\ CharAt(body, ColonAfter(body, m + 1 + Len(ReplaceWord))) = ":"}
    IN  {t \in opens \X places \X mids \X places :
            /\ t[2] \in NewlinesOfRun(body, ColonAfter(body, t[1] + Len(SearchWord)) + 1)
            /\ t[3] > t[2]
            /\ t[4] \in NewlinesOfRun(body,
                    ColonAfter(body, t[3] + 1 + Len(ReplaceWord)) + 1)}

\* The match the search returns: the leftmost start, then each greedy part
\* as long and each lazy part as short as a match allows, in the order of
\* the pattern.  lazy lists the parts that are as short as can be.
Better(t, u, lazy) ==
    \E k \in 1 .. 4 :
        /\ \A j \in 1 .. (k - 1) : t[j] = u[j]
        /\ IF k \in lazy THEN t[k] < u[k] ELSE t[k] > u[k]
SearchMatch(matches, lazy) ==
    CHOOSE t \in matches : \A u \in matches \ {t} : Better(t, u, lazy)

\* _parse_search_replace_block: the sequence with the one block of style A,
\* else of style B, else the empty sequence for None.
_parse_search_replace_block(text) ==
    LET BlockA(body, a) ==
            <<DiffBlock(SubSeq(body, a[2] + 1, a[3] - 1),
                        SubSeq(body, a[3] + Len(Separator), a[4] - 1))>>
        BlockB(body, b) ==
            <<DiffBlock(SubSeq(body, b[2] + 1, b[3] - 1), SubSeq(body, b[4] + 1, Len(body)))>>
        StyleB(body, matches) ==
            IF matches # {} THEN BlockB(body, SearchMatch(matches, {1, 3})) ELSE <<>>
        StyleA(body, matches) ==
            IF matches # {} THEN BlockA(body, SearchMatch(matches, {1, 3, 4}))
            ELSE StyleB(body, StyleBMatches(body))
        Parse(body) == StyleA(body, StyleAMatches(body))
        WithoutFile(stripped) ==
            IF \E p \in LineStarts(stripped) : p <= Len(stripped) /\ FileHeaderAt(stripped, p) # 0
            THEN RemoveFileHeaders(stripped, 1) ELSE stripped
    IN  Parse(WithoutFile(Strip(_strip_code_fences(text))))

\* extract_diffs: a block for every fenced chunk that holds one, else the
\* block of the whole response.
RECURSIVE BlocksOfChunks(_)
BlocksOfChunks(chunks) ==
    IF chunks = <<>> THEN <<>>
    ELSE _parse_search_replace_block(Fence \o Head(chunks) \o Fence)
            \o BlocksOfChunks(Tail(chunks))
extract_diffs(response_text) ==
    LET Blocks(fenced) ==
            IF fenced # <<>> THEN fenced ELSE _parse_search_replace_block(response_text)
    IN  Blocks(BlocksOfChunks(TripleFence(response_text, 1)))

\* --------------------------- diff_parser._parse_unified_blocks (43-96)
\* The matches of (?m)^---\s+a/ from index pos on, each as the pair of its
\* first index and the index after it.
RECURSIVE OldHeaderMatches(_, _)
OldHeaderMatches(body, pos) ==
    LET after(p) == RunEnd(body, p + Len(OldMark), Whitespace)
        starts == {p \in LineStarts(body) :
                      /\ p >= pos
                      /\ StartsWithAt(body, OldMark, p)
                      /\ after(p) > p + Len(OldMark)
                      /\ StartsWithAt(body, <<"a", Slash>>, after(p))}
        p == CHOOSE p \in starts : \A o \in starts : p <= o
    IN  IF starts = {} THEN <<>>
        ELSE <<<<p, after(p) + 2>>>> \o OldHeaderMatches(body, after(p) + 2)

\* re.split by these matches: the text before the first, between two and
\* after the last.
Segments(body) ==
    LET ms == OldHeaderMatches(body, 1)
    IN  [k \in 1 .. (Len(ms) + 1) |->
            SubSeq(body, IF k = 1 THEN 1 ELSE ms[k - 1][2],
                         IF k > Len(ms) THEN Len(body) ELSE ms[k][1] - 1)]

\* _UNIFIED_HEADER.match("--- a/" + seg): a path of one character or more
\* up to a newline, then +++, whitespace, b/ and a path up to a newline.
UnifiedHeaderMatches(seg) ==
    LET nl == FindFrom(seg, <<Newline>>, 1)
        b == RunEnd(seg, nl + 1 + Len(NewMark), Whitespace)
    IN  /\ nl > 1
        /\ StartsWithAt(seg, NewMark, nl + 1)
        /\ b > nl + 1 + Len(NewMark)
        /\ StartsWithAt(seg, <<"b", Slash>>, b)
        /\ CharAt(seg, b + 2) \notin {"", Newline}
        /\ FindFrom(seg, <<Newline>>, b + 2) # 0

\* Lines 82-93: header and hunk-header lines and removed lines go, an added
\* line loses its plus, the rest of the split header goes and every other
\* line stays as it is.
RECURSIVE CleanLines(_)
CleanLines(lines) ==
    IF lines = <<>> THEN <<>>
    ELSE LET ln == Head(lines)
         IN  (IF StartsWithAny(ln, {NewMark, OldMark, HunkMark}) THEN <<>>
              ELSE IF StartsWith(ln, <<"+">>) THEN <<SubSeq(ln, 2, Len(ln))>>
              ELSE IF StartsWith(ln, <<"-">>) THEN <<>>
              ELSE IF StartsWithAny(ln, {<<"a", Slash>>, <<"b", Slash>>}) THEN <<>>
              ELSE <<ln>>) \o CleanLines(Tail(lines))

\* The blocks of the segments from the k-th on: search is None (the empty
\* text), replace the clean lines.
RECURSIVE BlocksOfSegments(_, _)
BlocksOfSegments(segments, k) ==
    IF k > Len(segments) THEN <<>>
    ELSE LET seg == segments[k]
             clean_lines == CleanLines(SplitLines(<<"a", Slash>> \o seg))
         IN  (IF Strip(seg) # <<>> /\ UnifiedHeaderMatches(seg) /\ clean_lines # <<>>
              THEN <<DiffBlock(<<>>, RStrip(Join(clean_lines)) \o <<Newline>>)>>
              ELSE <<>>) \o BlocksOfSegments(segments, k + 1)

\* _parse_unified_blocks.  With one segment the search of _UNIFIED_HEADER in
\* line 54 finds nothing, as the pattern starts with the one of the split.
_parse_unified_blocks(lang, body) ==
    IF FindFrom(lang, DiffTag, 1) = 0 THEN <<>>
    ELSE IF Len(Segments(body)) = 1 THEN <<>>
    ELSE BlocksOfSegments(Segments(body), 1)

\* apply_diffs_to_code from its first pass to its last: the new code.
RECURSIVE ApplyAll(_, _)
ApplyAll(code, blocks) ==
    IF blocks = <<>> THEN code ELSE ApplyAll(ApplyPass(code, Head(blocks)).code, Tail(blocks))

\* ------------------------------ process_parallel.py, the diff branch
\* _sanitize_llm_patch: the call with keywords raises TypeError, the one
\* without them is made and its result stripped.
_sanitize_llm_patch(raw) == Strip(extract_raw_patch(raw))

\* apply_diff (line 273) takes code, search_text and replace_text; a call
\* with another number of arguments raises TypeError, which the except
\* clause of the worker turns into the error of the result.
apply_diff(code, search_text, replace_text) ==
    LET Returned(pass) == <<pass.code, pass.how \in {"exact", "tolerant"}>>
    IN  Returned(ApplyPass(code, DiffBlock(search_text, replace_text)))
Call_apply_diff(args, blocks) ==
    IF Len(args) # 3 THEN DiffOutcome("TypeError", blocks, <<>>)
    ELSE DiffOutcome(None, blocks, apply_diff(args[1], args[2], args[3]))

\* Lines 176-197 for the code of the parent and the response of the model.
DiffBranch(code, response) ==
    LET Applied(used, diff_blocks) ==
            IF diff_blocks = <<>>
            THEN DiffOutcome("No valid diffs found in response", <<>>, <<>>)
            ELSE Call_apply_diff(<<code, used>>, diff_blocks)
        Extracted(used) == Applied(used, extract_diffs(used))
        Patched(patch) == Extracted(IF patch # <<>> THEN patch ELSE response)
        raw == Strip(response)
    IN  IF StartsWith(Lower(raw), <<"s", "k", "i", "p">>)
        THEN DiffOutcome("Model skipped", <<>>, <<>>)
        ELSE Patched(_sanitize_llm_patch(raw))

\* ------------------------------------------- responses of the model
MaxResponseLines == 3
MaxHunkLines == 3

\* Lines a response is made of: headers for the target, for app.py and for
\* data_layer.py, a hunk header, one with a malformed tail, an added, a
\* removed and a context line, a line of prose and an empty line.
HunkHeader11 == HunkMark \o <<" ", "-", "1", " ", "+", "1", " ">> \o HunkMark
LinePool ==
    {OldPrefix \o ApiPy, NewPrefix \o ApiPy, OldPrefix \o AppPy, NewPrefix \o DataLayerPy,
     HunkHeader11, SubSeq(HunkHeader11, 1, Len(HunkHeader11) - 1),
     <<"+", "x">>, <<"-", "y">>, <<" ", "c">>, <<"z">>, <<>>}
Responses == {Join(ls) : ls \in UNION {[1 .. k -> LinePool] : k \in 1 .. MaxResponseLines}}

\* A hand-written unified diff for one file: the two headers, one hunk
\* header with the line counts of the hunk, and the lines of the hunk, of
\* which one at least is added or removed.
Paths == {ApiPy, DataLayerPy, AppPy}
HunkLines == {<<" ", "c">>, <<"-", "x">>, <<"+", "y">>}
Hunks ==
    {h \in UNION {[1 .. k -> HunkLines] : k \in 1 .. MaxHunkLines} :
        \E k \in 1 .. Len(h) : h[k][1] # " "}
DigitChar(n) == <<"0", "1", "2", "3", "4", "5", "6", "7", "8", "9">>[n + 1]
Side(hunk, marks) == SelectSeq(hunk, LAMBDA ln : ln[1] \in marks)
Range(n) ==
    IF n = 0 THEN <<"0", ",", "0">>
    ELSE IF n = 1 THEN <<"1">>
    ELSE <<"1", ",", DigitChar(n)>>
HunkHeader(hunk) ==
    HunkMark \o <<" ", "-">> \o Range(Len(Side(hunk, {" ", "-"})))
        \o <<" ", "+">> \o Range(Len(Side(hunk, {" ", "+"}))) \o <<" ">> \o HunkMark
ValidDiff(path, hunk) ==
    Join(<<OldPrefix \o path, NewPrefix \o path, HunkHeader(hunk)>> \o hunk) \o <<Newline>>
ValidDiffs == {ValidDiff(path, hunk) : path \in Paths, hunk \in Hunks}

\* The same diff inside a fenced block after a line of prose.
Fenced(diff) ==
    <<"z", Newline>> \o Fence \o DiffTag \o <<Newline>> \o diff \o Fence \o <<Newline>>

\* The source a hunk assumes and the source it intends: the context lines
\* with the removed lines, and with the added lines.
SourceOf(hunk, marks) ==
    LET lines == Side(hunk, marks)
    IN  IF lines = <<>> THEN <<>>
        ELSE Join([k \in 1 .. Len(lines) |-> Tail(lines[k])]) \o <<Newline>>
OldSide(hunk) == SourceOf(hunk, {" ", "-"})
NewSide(hunk) == SourceOf(hunk, {" ", "+"})

\* A response with one SEARCH/REPLACE block.
SearchReplaceResponse ==
    Join(<<OpenMarker \o <<" ", "S", "E", "A", "R", "C", "H">>, <<"x">>,
           <<"=", "=", "=", "=", "=", "=", "=">>, <<"y">>,
           Tail(CloseMarker) \o <<" ", "R", "E", "P", "L", "A", "C", "E">>>>)

\* The worker has the code of its parent and the response of the model.
Responded(code, response) ==
    /\ parent_code = code
    /\ llm_response = response
    /\ sanitized = <<>>
    /\ resanitized = <<>>
    /\ outcome = NoOutcome
    /\ unified_code = <<>>
    /\ san_pc = "response"

SanInit ==
    /\ Constructed(1, 1, 0, 0, NoTarget)
    /\ EditIdle
    /\ ParseIdle
    /\ WorkIdle
    /\ DistIdle
    /\ StepIdle
    /\ \/ \E response \in Responses \cup {SearchReplaceResponse} : Responded(<<"x">>, response)
       \/ \E path \in Paths, hunk \in Hunks :
             \/ Responded(OldSide(hunk), ValidDiff(path, hunk))
             \/ Responded(OldSide(hunk), Fenced(ValidDiff(path, hunk)))

\* extract_raw_patch(text) is called with the response.
Sanitize ==
    /\ san_pc = "response"
    /\ sanitized' = extract_raw_patch(llm_response)
    /\ san_pc' = "sanitized"
    /\ UNCHANGED <<schedVars, stepVars, workVars, distVars, editVars, parseVars,
                   llm_response, parent_code, resanitized, outcome, unified_code>>

\* extract_raw_patch is called with its own result.
SanitizeAgain ==
    /\ san_pc = "sanitized"
    /\ resanitized' = extract_raw_patch(sanitized)
    /\ san_pc' = "resanitized"
    /\ UNCHANGED <<schedVars, stepVars, workVars, distVars, editVars, parseVars,
                   llm_response, parent_code, sanitized, outcome, unified_code>>

\* The edits _parse_unified_blocks extracts from the sanitized text are
\* applied to the code of the parent by apply_diffs_to_code.
ApplyUnified ==
    /\ san_pc = "sanitized"
    /\ unified_code' = ApplyAll(parent_code, _parse_unified_blocks(DiffTag, sanitized))
    /\ san_pc' = "applied"
    /\ UNCHANGED <<schedVars, stepVars, workVars, distVars, editVars, parseVars,
                   llm_response, parent_code, sanitized, resanitized, outcome>>

\* The worker runs lines 176-197 on the response.
RunDiffBranch ==
    /\ san_pc = "response"
    /\ outcome' = DiffBranch(parent_code, llm_response)
    /\ san_pc' = "returned"
    /\ UNCHANGED <<schedVars, stepVars, workVars, distVars, editVars, parseVars,
                   llm_response, parent_code, sanitized, resanitized, unified_code>>

SanNext ==
    \/ Sanitize
    \/ SanitizeAgain
    \/ ApplyUnified
    \/ RunDiffBranch

SanSpec == SanInit /\ [][SanNext]_vars

\* The response is the hand-written diff of a hunk for the file of a path.
HandWritten(path, hunk) == llm_response = ValidDiff(path, hunk)

\* C17: round trip.  A valid hand-written unified diff for the target file is
\* sanitized, the edits are extracted from the sanitized text and applied to
\* the source the diff assumes: the result is the source the diff intends,
\* with the removed lines gone, the added lines present and the context
\* kept.  This holds for the diff branch of the worker, which extracts with
\* extract_diffs, and for the edits of _parse_unified_blocks.
C17_RoundTrip ==
    \A hunk \in Hunks :
        HandWritten(TARGET, hunk) =>
            /\ san_pc = "returned" =>
                  outcome.error = None /\ outcome.child_code = NewSide(hunk)
            /\ san_pc = "applied" => unified_code = NewSide(hunk)

\* The lines of a text that are hunk headers, and those that are added or
\* removed lines of a hunk: a plus or a minus in front and not a ---/+++
\* file header.
IsFileHeader(ln) == MatchesHeader(ln, OldMark) \/ MatchesHeader(ln, NewMark)
HunkHeaderLines(s) == SelectSeq(SplitLines(s), LAMBDA ln : StartsWith(ln, HunkMark))
ChangeLines(s) ==
    SelectSeq(SplitLines(s),
              LAMBDA ln : StartsWithAny(ln, {<<"+">>, <<"-">>}) /\ ~IsFileHeader(ln))

\* C18: every result of extract_raw_patch that is not empty has a hunk
\* header line and an added or removed hunk line; a response with no hunk
\* marker and no line that starts with plus or minus gives the empty text.
C18_NonEmptyHasHunkAndChange ==
    san_pc = "sanitized" =>
        /\ sanitized # <<>> =>
              HunkHeaderLines(sanitized) # <<>> /\ ChangeLines(sanitized) # <<>>
        /\ (/\ FindFrom(llm_response, HunkMark, 1) = 0
            /\ \A k \in 1 .. Len(Split(llm_response)) :
                  ~StartsWithAny(Split(llm_response)[k], {<<"+">>, <<"-">>}))
              => sanitized = <<>>

\* C19: extract_raw_patch is idempotent: applied to its own result it
\* returns that result, the empty text included.
C19_Idempotent == san_pc = "resanitized" => resanitized = sanitized

\* C20: sanitizing a valid single-file diff returns the same hunk header and
\* hunk lines under two header lines that keep the path when it is in the
\* allow-list and name the target when it is not.
C20_ValidDiffKept ==
    \A path \in Paths, hunk \in Hunks :
        (HandWritten(path, hunk) /\ san_pc = "sanitized") =>
            sanitized = ValidDiff(IF path \in _ALLOWED THEN path ELSE TARGET, hunk)

\* ------------------------------- the block the sanitizer keeps (118-142)
MaxProseLines == 3

\* Lines of prose: a word, a line that starts with +, and a line that names
\* five of the tokens _choose_best_block counts.
TokenLine == OldMark \o <<" ">> \o NewMark \o <<" ">> \o HunkMark \o <<" ">> \o IndexWord \o DiffGit
ProseLines == {<<"z">>, <<"+", "q">>, TokenLine}
Proses == {Join(ls) : ls \in UNION {[1 .. k -> ProseLines] : k \in 1 .. MaxProseLines}}
TextTag == <<"t", "e", "x", "t">>
FencedAs(tag, body) == Fence \o tag \o <<Newline>> \o body \o <<Newline>> \o Fence \o <<Newline>>

\* The responses of Scenario B, a prose fence tagged text and a fence tagged
\* diff with a valid diff for the target, in both orders; responses with one
\* fence and prose or a hunk outside it; and responses without a fence.
TwoFences(prose, hunk) ==
    {FencedAs(TextTag, prose) \o FencedAs(DiffTag, ValidDiff(TARGET, hunk)),
     FencedAs(DiffTag, ValidDiff(TARGET, hunk)) \o FencedAs(TextTag, prose)}
OneFence(prose, hunk) ==
    {prose \o <<Newline>> \o FencedAs(DiffTag, ValidDiff(TARGET, hunk)),
     FencedAs(TextTag, prose) \o ValidDiff(TARGET, hunk)}
NoFence(prose, hunk) == {prose \o <<Newline>> \o ValidDiff(TARGET, hunk)}
ShortHunks == {h \in Hunks : Len(h) <= 2}

ChooseInit ==
    /\ Constructed(1, 1, 0, 0, NoTarget)
    /\ EditIdle
    /\ WorkIdle
    /\ DistIdle
    /\ StepIdle
    /\ chosen_block = <<>>
    /\ diffs = <<>>
    /\ code_blocks = <<>>
    /\ parse_pc = "response"
    /\ \E prose \in Proses, hunk \in ShortHunks :
          \E response \in TwoFences(prose, hunk) \cup OneFence(prose, hunk)
                              \cup NoFence(prose, hunk) :
              Responded(OldSide(hunk), response)

\* Lines 227-229: the text is normalised and _choose_best_block is called.
ChooseBlock ==
    /\ parse_pc = "response"
    /\ chosen_block' = _choose_best_block(_normalize_text(llm_response))
    /\ parse_pc' = "chosen"
    /\ UNCHANGED <<schedVars, stepVars, workVars, distVars, editVars, sanVars,
                   diffs, code_blocks>>

ChooseNext ==
    \/ ChooseBlock
    \/ Sanitize

ChooseSpec == ChooseInit /\ [][ChooseNext]_vars

\* C21: candidate selection.  With a prose fence tagged text and a fence
\* tagged diff that holds a valid diff, the block that is processed is the
\* body of the diff fence and the result is that diff, whatever the prose
\* is; a text that does not hold several fenced blocks is processed whole.
C21_BestBlockOnly ==
    \A prose \in Proses, hunk \in ShortHunks :
        /\ llm_response \in TwoFences(prose, hunk) =>
              /\ parse_pc = "chosen" =>
                    chosen_block = ValidDiff(TARGET, hunk) \o <<Newline>>
              /\ san_pc = "sanitized" => sanitized = ValidDiff(TARGET, hunk)
        /\ llm_response \in OneFence(prose, hunk) \cup NoFence(prose, hunk) =>
              (parse_pc = "chosen" => chosen_block = llm_response)

\* --------------- diff_parser.extract_diffs_from_response (98-137)
\* A DiffBlock of diff_parser: search (the empty text for None), replace
\* and format.
ParserBlock(search, replace, format) ==
    [search |-> search, replace |-> replace, format |-> format]
SearchTag == <<"S", "E", "A", "R", "C", "H">>
ReplaceTag == <<"R", "E", "P", "L", "A", "C", "E">>
FileParam == <<"f", "i", "l", "e", "=">>
FileMarker == <<"F", "I", "L", "E", ":">>

\* _parse_conflict_style: the matches of <<<<<<<\s*SEARCH\n(.*?)\n=======\n
\* (.*?)\n>>>>>>>\s*REPLACE(?:\s*file=([^\n]+))? under re.DOTALL from index
\* pos on.  A match that starts at a has group 1 up to the first separator
\* and group 2 up to the first closing marker after it.
RECURSIVE ConflictBlocks(_, _)
ConflictBlocks(text, pos) ==
    LET Group1(a) == RunEnd(text, a + Len(OpenMarker), Whitespace) + Len(SearchTag) + 1
        Sep(a) == FindFrom(text, Separator, Group1(a))
        Closes(g2) ==
            {k \in g2 .. Len(text) :
                /\ StartsWithAt(text, CloseMarker, k)
                /\ StartsWithAt(text, ReplaceTag, RunEnd(text, k + Len(CloseMarker), Whitespace))}
        Matches(a) ==
            /\ StartsWithAt(text, OpenMarker, a)
            /\ StartsWithAt(text, SearchTag \o <<Newline>>,
                            RunEnd(text, a + Len(OpenMarker), Whitespace))
            /\ Sep(a) # 0
            /\ Closes(Sep(a) + Len(Separator)) # {}
        AfterFile(e, w) ==
            IF StartsWithAt(text, FileParam, w) /\ CharAt(text, w + Len(FileParam)) \notin {"", Newline}
            THEN RunEnd(text, w + Len(FileParam), {text[j] : j \in 1 .. Len(text)} \ {Newline})
            ELSE e
        End(e) == AfterFile(e, RunEnd(text, e, Whitespace))
        Block(g1, m, k) ==
            <<ParserBlock(SubSeq(text, g1, m - 1), SubSeq(text, m + Len(Separator), k - 1),
                          "conflict")>>
                \o ConflictBlocks(text,
                       End(RunEnd(text, k + Len(CloseMarker), Whitespace) + Len(ReplaceTag)))
        Closed(g1, m, closes) == Block(g1, m, CHOOSE k \in closes : \A j \in closes : k <= j)
        Separated(g1, m) == Closed(g1, m, Closes(m + Len(Separator)))
        Opened(a) == Separated(Group1(a), Sep(a))
        First(starts) ==
            IF starts = {} THEN <<>> ELSE Opened(CHOOSE a \in starts : \A o \in starts : a <= o)
    IN  First({a \in pos .. Len(text) : Matches(a)})
_parse_conflict_style(text) == ConflictBlocks(text, 1)

\* _extract_code_blocks: the matches of _CODEBLOCK_RE, three backticks, a
\* lang without newline and backtick, a newline and the body up to the next
\* three backticks; the lang is stripped and lowered.
RECURSIVE CodeBlocksFrom(_, _)
CodeBlocksFrom(text, pos) ==
    LET LangEnd(p) ==
            RunEnd(text, p + Len(Fence), {text[j] : j \in 1 .. Len(text)} \ {Newline, Backtick})
        Close(p) == FindFrom(text, Fence, LangEnd(p) + 1)
        Block(p, t, c) ==
            <<[lang |-> Lower(Strip(SubSeq(text, p + Len(Fence), t - 1))),
               body |-> SubSeq(text, t + 1, c - 1)]>>
                \o CodeBlocksFrom(text, c + Len(Fence))
        Opened(p) == Block(p, LangEnd(p), Close(p))
        First(starts) ==
            IF starts = {} THEN <<>> ELSE Opened(CHOOSE p \in starts : \A o \in starts : p <= o)
    IN  First({p \in pos .. Len(text) :
                  /\ StartsWithAt(text, Fence, p)
                  /\ CharAt(text, LangEnd(p)) = Newline
                  /\ Close(p) # 0})
_extract_code_blocks(text) == CodeBlocksFrom(text, 1)

\* Lines 107-124: a block of lang search and the block after it, when its
\* lang starts with replace, make one edit; the loop goes on after the pair.
RECURSIVE PairedFrom(_, _)
PairedFrom(blocks, i) ==
    IF i > Len(blocks) THEN <<>>
    ELSE IF /\ blocks[i].lang = Lower(SearchTag)
            /\ i + 1 <= Len(blocks)
            /\ StartsWith(blocks[i + 1].lang, Lower(ReplaceTag))
    THEN <<ParserBlock(blocks[i].body, blocks[i + 1].body, "search_replace")>>
            \o PairedFrom(blocks, i + 2)
    ELSE PairedFrom(blocks, i + 1)

\* Lines 127-129: the edits of every block whose lang holds diff.
RECURSIVE UnifiedFrom(_, _)
UnifiedFrom(blocks, i) ==
    IF i > Len(blocks) THEN <<>>
    ELSE LET Tagged(bs) == [k \in 1 .. Len(bs) |-> ParserBlock(<<>>, bs[k].replace, "unified")]
         IN  Tagged(_parse_unified_blocks(blocks[i].lang, blocks[i].body))
                \o UnifiedFrom(blocks, i + 1)

\* Lines 132-136: a block of a known language whose body has a line
\* # FILE: path is an edit that replaces the whole file.
FullFileLangs ==
    {<<"p", "y", "t", "h", "o", "n">>, <<"p", "y">>,
     <<"j", "a", "v", "a", "s", "c", "r", "i", "p", "t">>, <<"j", "s">>, <<"t", "s">>,
     <<"t", "s", "x">>}
HasFileMarker(body) ==
    \E p \in LineStarts(body) :
        LET Path(r) == r <= Len(body) /\ ~IsSpace(body[r])
            Marked(q) == StartsWithAt(body, FileMarker, q)
                            /\ Path(RunEnd(body, q + Len(FileMarker), Whitespace))
        IN  CharAt(body, p) = "#" /\ Marked(RunEnd(body, p + 1, Whitespace))
RECURSIVE FullFileFrom(_, _)
FullFileFrom(blocks, i) ==
    IF i > Len(blocks) THEN <<>>
    ELSE (IF blocks[i].lang \in FullFileLangs /\ HasFileMarker(blocks[i].body)
          THEN <<ParserBlock(<<>>, blocks[i].body, "fullfile")>> ELSE <<>>)
            \o FullFileFrom(blocks, i + 1)

\* The parts a response is made of: prose, a conflict-style block, one
\* inside a fence, a search fence with its replace fence, a diff fence with
\* a valid diff, a fence of a known language with a file marker, and a
\* fence that holds no edit.
MaxParts == 3
ConflictText(search, replace) ==
    Join(<<OpenMarker \o <<" ">> \o SearchTag, search, SubSeq(Separator, 2, Len(Separator) - 1), replace,
           Tail(CloseMarker) \o <<" ">> \o ReplaceTag>>) \o <<Newline>>
PartKinds == {"prose", "conflict", "fenced conflict", "pair", "diff", "fullfile", "text"}
PartText(kind) ==
    CASE kind = "prose" -> <<"z", Newline>>
      [] kind = "conflict" -> ConflictText(<<"x">>, <<"y">>)
      [] kind = "fenced conflict" ->
            Fence \o <<"j", "s", Newline>> \o ConflictText(<<"u">>, <<"v">>) \o Fence \o <<Newline>>
      [] kind = "pair" ->
            FencedAs(Lower(SearchTag), <<"x">>)
                \o FencedAs(Lower(ReplaceTag) \o <<" ">> \o FileParam \o ApiPy, <<"w">>)
      [] kind = "diff" ->
            Fence \o DiffTag \o <<Newline>> \o ValidDiff(ApiPy, << <<"-", "x">>, <<"+", "y">> >>)
                \o Fence \o <<Newline>>
      [] kind = "fullfile" ->
            FencedAs(<<"p", "y">>, <<"#", " ">> \o FileMarker \o <<" ">> \o ApiPy \o <<Newline, "q">>)
      [] kind = "text" -> FencedAs(TextTag, <<"z">>)
PartEdit(kind) ==
    CASE kind = "conflict" -> ParserBlock(<<"x">>, <<"y">>, "conflict")
      [] kind = "fenced conflict" -> ParserBlock(<<"u">>, <<"v">>, "conflict")
      [] kind = "pair" -> ParserBlock(<<"x", Newline>>, <<"w", Newline>>, "search_replace")
      [] kind = "diff" -> ParserBlock(<<>>, <<"y", Newline>>, "unified")
      [] kind = "fullfile" ->
            ParserBlock(<<>>, <<"#", " ">> \o FileMarker \o <<" ">> \o ApiPy \o <<Newline, "q", Newline>>,
                        "fullfile")
      [] OTHER -> ParserBlock(<<>>, <<>>, "none")
PartSeqs == UNION {[1 .. k -> PartKinds] : k \in 0 .. MaxParts}
RECURSIVE Rendered(_)
Rendered(parts) ==
    IF parts = <<>> THEN <<>> ELSE PartText(Head(parts)) \o Rendered(Tail(parts))

\* The edits of the parts of one format, in the order of the text, and the
\* edits of all parts, format after format.
EditsOf(parts, format) ==
    LET edits == [k \in 1 .. Len(parts) |-> PartEdit(parts[k])]
    IN  SelectSeq(edits, LAMBDA e : e.format = format)
Formats == <<"conflict", "search_replace", "unified", "fullfile">>
Discovered(parts) ==
    EditsOf(parts, Formats[1]) \o EditsOf(parts, Formats[2]) \o EditsOf(parts, Formats[3])
        \o EditsOf(parts, Formats[4])

ExtractInit ==
    /\ Constructed(1, 1, 0, 0, NoTarget)
    /\ EditIdle
    /\ WorkIdle
    /\ DistIdle
    /\ StepIdle
    /\ chosen_block = <<>>
    /\ diffs = <<>>
    /\ code_blocks = <<>>
    /\ parse_pc = "response"
    /\ \E parts \in PartSeqs : Responded(<<"x", Newline>>, Rendered(parts))

\* Line 101: diffs.extend(_parse_conflict_style(text)).
ConflictStyle ==
    /\ parse_pc = "response"
    /\ diffs' = diffs \o _parse_conflict_style(llm_response)
    /\ parse_pc' = "conflict"
    /\ UNCHANGED <<schedVars, stepVars, workVars, distVars, editVars, sanVars,
                   chosen_block, code_blocks>>

\* Line 105: code_blocks = _extract_code_blocks(text).
CodeBlocks ==
    /\ parse_pc = "conflict"
    /\ code_blocks' = _extract_code_blocks(llm_response)
    /\ parse_pc' = "blocks"
    /\ UNCHANGED <<schedVars, stepVars, workVars, distVars, editVars, sanVars,
                   chosen_block, diffs>>

\* Lines 107-124.
PairFences ==
    /\ parse_pc = "blocks"
    /\ diffs' = diffs \o PairedFrom(code_blocks, 1)
    /\ parse_pc' = "paired"
    /\ UNCHANGED <<schedVars, stepVars, workVars, distVars, editVars, sanVars,
                   chosen_block, code_blocks>>

\* Mutant of UnifiedFences: the edits of the diff fences are put in front of
\* the edits found so far.
UnifiedFences_First ==
    /\ parse_pc = "paired"
    /\ diffs' = UnifiedFrom(code_blocks, 1) \o diffs
    /\ parse_pc' = "unified"
    /\ UNCHANGED <<schedVars, stepVars, workVars, distVars, editVars, sanVars,
                   chosen_block, code_blocks>>

\* Lines 127-129.
UnifiedFences ==
    /\ parse_pc = "paired"
    /\ diffs' = diffs \o UnifiedFrom(code_blocks, 1)
    /\ parse_pc' = "unified"
    /\ UNCHANGED <<schedVars, stepVars, workVars, distVars, editVars, sanVars,
                   chosen_block, code_blocks>>

\* Lines 132-137, and the return of diffs.
FullFiles ==
    /\ parse_pc = "unified"
    /\ diffs' = diffs \o FullFileFrom(code_blocks, 1)
    /\ parse_pc' = "returned"
    /\ UNCHANGED <<schedVars, stepVars, workVars, distVars, editVars, sanVars,
                   chosen_block, code_blocks>>

ExtractNext ==
    \/ ConflictStyle
    \/ CodeBlocks
    \/ PairFences
    \/ UnifiedFences
    \/ FullFiles

ExtractSpec == ExtractInit /\ [][ExtractNext]_vars

MaxCodeLength == 12

\* ------------------------------- code_utils.py, parse_full_rewrite (619)
PathWord == <<"p", "a", "t", "h">>
BeginWord == <<"b", "e", "g", "i", "n">>
LangChar(c) == IsWord(c) \/ c \in {"+", "-"}
CloseFence == <<Newline>> \o Fence

\* _FENCE_RE at the three backticks of index p: the longest tag, whitespace
\* up to the last of its newlines that a newline and three backticks follow
\* somewhere, and the body up to the first of these.  The body in a
\* sequence of one, the empty sequence when there is no match at p.
FenceBodyAt(text, p) ==
    LET Body(n) == <<SubSeq(text, n + 1, FindFrom(text, CloseFence, n + 1) - 1)>>
        Latest(starts) ==
            IF starts = {} THEN <<>> ELSE Body(CHOOSE n \in starts : \A m \in starts : m <= n)
        Opened(t) ==
            Latest({n \in t .. (RunEnd(text, t, Whitespace) - 1) :
                        text[n] = Newline /\ FindFrom(text, CloseFence, n + 1) # 0})
    IN  Opened(RunEnd(text, p + Len(Fence), {c \in {text[k] : k \in 1 .. Len(text)} : LangChar(c)}))

\* _FENCE_RE.search: the match at the leftmost index that has one.
FenceSearch(text) ==
    LET First(hits) ==
            IF hits = {} THEN <<>> ELSE FenceBodyAt(text, CHOOSE p \in hits : \A q \in hits : p <= q)
    IN  First({p \in 1 .. Len(text) : StartsWithAt(text, Fence, p) /\ FenceBodyAt(text, p) # <<>>})

\* The index of the colon of a hint whose keyword starts at index q, zero
\* when there is none: file or path, or with begin FILE or BEGIN, whitespace
\* and FILE; then whitespace and the colon.  Case is ignored.
HintColon(text, q, begin) ==
    LET Colon(e) == IF CharAt(text, RunEnd(text, e, Whitespace)) = ":"
                    THEN RunEnd(text, e, Whitespace) ELSE 0
        Word(word, at) == IF StartsWithAt(Lower(text), word, at) THEN Colon(at + Len(word)) ELSE 0
        Begun(e) == IF RunEnd(text, e, Whitespace) > e
                    THEN Word(FileWord, RunEnd(text, e, Whitespace)) ELSE 0
    IN  IF begin
        THEN IF StartsWithAt(Lower(text), BeginWord, q) THEN Begun(q + Len(BeginWord))
             ELSE Word(FileWord, q)
        ELSE IF StartsWithAt(Lower(text), FileWord, q) THEN Word(FileWord, q)
             ELSE Word(PathWord, q)

\* The index after an optional comment opener at index q: #, // or a slash
\* and its asterisks.
AfterCommentOpener(line, q) ==
    IF CharAt(line, q) = "#" THEN q + 1
    ELSE IF CharAt(line, q) = "/" /\ CharAt(line, q + 1) = "/" THEN q + 2
    ELSE IF CharAt(line, q) = "/" /\ CharAt(line, q + 1) = "*" THEN RunEnd(line, q + 1, {"*"})
    ELSE q

\* The two re.match tests of _strip_header_lines on a line.
IsHeaderHint(line) ==
    LET Opener(q) == HintColon(line, RunEnd(line, AfterCommentOpener(line, q), Whitespace), FALSE) # 0
        Plain(q) == HintColon(line, q, FALSE) # 0 \/ HintColon(line, q, TRUE) # 0 \/ Opener(q)
    IN  Plain(RunEnd(line, 1, Whitespace))

\* _strip_header_lines: the lines that are no hint, joined by newlines.
_strip_header_lines(s) == Join(SelectSeq(SplitLines(s), LAMBDA line : ~IsHeaderHint(line)))

\* str.strip(chars).
StripChars(s, chars) ==
    LET Kept(keep) ==
            IF keep = {} THEN <<>>
            ELSE SubSeq(s, CHOOSE k \in keep : \A j \in keep : k <= j,
                           CHOOSE k \in keep : \A j \in keep : j <= k)
    IN  Kept({k \in 1 .. Len(s) : s[k] \notin chars})

\* One re.search of _find_path_hint: the match that starts leftmost, at the
\* start of the text or at a newline, with whitespace, the keyword and its
\* colon; after the colon only whitespace may come before the last line
\* (the line before a final newline), which is group p and not empty.  The
\* group in a sequence of one, the empty sequence without a match.
PathHintSearch(chunk, begin) ==
    LET LastLine(rest) == rest[Len(rest)]
        Group(rest) ==
            IF LastLine(rest) # <<>>
                /\ \A k \in 1 .. (Len(rest) - 1) : \A j \in 1 .. Len(rest[k]) : IsSpace(rest[k][j])
            THEN <<LastLine(rest)>> ELSE <<>>
        Cut(rest) == IF rest # <<>> /\ rest[Len(rest)] = Newline
                     THEN SubSeq(rest, 1, Len(rest) - 1) ELSE rest
        After(colon) ==
            IF colon = 0 THEN <<>> ELSE Group(Split(Cut(SubSeq(chunk, colon + 1, Len(chunk)))))
        From(b) == After(HintColon(chunk, RunEnd(chunk, b, Whitespace), begin))
        First(starts) ==
            IF starts = {} THEN <<>> ELSE From(CHOOSE b \in starts : \A c \in starts : b <= c)
    IN  First({b \in 1 .. (Len(chunk) + 1) :
                  /\ b = 1 \/ chunk[b - 1] = Newline
                  /\ From(b) # <<>>})

\* _find_path_hint: the group of the first search, else of the second,
\* stripped of whitespace and then of quotes; "" without a match.
_find_path_hint(header_chunk) ==
    LET Clean(m) == IF m = <<>> THEN <<>> ELSE StripChars(Strip(m[1]), {Backtick, "'", "\""})
        Second(m) == IF m # <<>> THEN Clean(m) ELSE Clean(PathHintSearch(header_chunk, TRUE))
    IN  Second(PathHintSearch(header_chunk, FALSE))

\* The first n elements of a sequence.
Take(s, n) == SubSeq(s, 1, Min(n, Len(s)))

\* parse_full_rewrite(response_text, language): a list of one dictionary.
Rewrite(path, content) == [type |-> "rewrite", path |-> path, content |-> content]
parse_full_rewrite(response_text) ==
    LET Parsed(candidate) ==
            <<Rewrite(_find_path_hint(Join(Take(SplitLines(candidate), 5))),
                      StripChars(_strip_header_lines(candidate), {Newline}))>>
        Found(fence) == Parsed(IF fence # <<>> THEN fence[1] ELSE response_text)
    IN  Found(FenceSearch(response_text))

\* ----------------------- _run_iteration_worker, lines 176-239: one task
\* The results of the task: a named failure, and the child with the mean
\* of its metrics.  The parent is the seed and the iteration is 0.
Failure(err) == SerializableResult(<<>>, NoParent, {}, err, 0)
Child(code, score) == SerializableResult(<<[code |-> code, score |-> score]>>, Seed, {}, None, 0)

\* Responses that start with the word SKIP, in either case, alone or not.
SkipWord == <<"S", "K", "I", "P">>
SkipResponses ==
    {SkipWord, Lower(SkipWord), <<" ">> \o SkipWord \o <<Newline>>,
     SkipWord \o <<"p", "e", "d">>, SkipWord \o <<" ", "z">>,
     SkipWord \o <<Newline>> \o SearchReplaceResponse,
     <<"z", " ">> \o SkipWord, <<"z", Newline>> \o SearchReplaceResponse}

\* Rewrites of a whole file: up to MaxResponseLines lines of code, hints and
\* empty lines, bare, in a fence after a line of prose, and in the second
\* of two fences.
FileHint == FileWord \o <<":", " ", "a">>
RewriteLines == {<<"x">>, <<"y">>, FileHint, <<"#", " ">> \o PathWord \o <<":", "b">>, <<>>}
RewriteBodies == {Join(ls) : ls \in UNION {[1 .. k -> RewriteLines] : k \in 0 .. MaxResponseLines}}
InFence(body) == Fence \o <<"j", "s", Newline>> \o body \o <<Newline>> \o Fence
RewriteResponses ==
    UNION {{body, <<"z", Newline>> \o InFence(body) \o <<Newline, "z">>,
            InFence(body) \o <<Newline>> \o InFence(<<"q">>)} : body \in RewriteBodies}

\* A task has the code of its parent, the response of the model and the
\* mode of its configuration.
WorkInit ==
    /\ Constructed(1, 1, 0, 0, NoTarget)
    /\ EditIdle
    /\ ParseIdle
    /\ diff_based_evolution \in BOOLEAN
    /\ child_code = <<>>
    /\ evaluated = <<>>
    /\ worker_result = NoResult
    /\ worker_pc = "response"
    /\ DistIdle
    /\ StepIdle
    /\ \E code \in {<<"x">>, <<"q">>} :
          \E response \in SkipResponses \cup RewriteResponses \cup {SearchReplaceResponse} :
              Responded(code, response)

\* Lines 177-205: the child of the diff branch or of the rewrite branch, or
\* the failure the branch returns; what apply_diff raises is the error of
\* the except clause of line 237.
GenerateChild ==
    /\ worker_pc = "response"
    /\ IF diff_based_evolution
       THEN /\ outcome' = DiffBranch(parent_code, llm_response)
            /\ IF outcome'.error # None
               THEN /\ worker_result' = Failure(outcome'.error)
                    /\ worker_pc' = "returned"
                    /\ UNCHANGED child_code
               ELSE /\ child_code' = outcome'.child_code
                    /\ worker_pc' = "generated"
                    /\ UNCHANGED worker_result
       ELSE /\ IF parse_full_rewrite(llm_response) = <<>>
               THEN /\ worker_result' = Failure("No valid code found in response")
                    /\ worker_pc' = "returned"
                    /\ UNCHANGED child_code
               ELSE /\ child_code' = parse_full_rewrite(llm_response)
                    /\ worker_pc' = "generated"
                    /\ UNCHANGED worker_result
            /\ UNCHANGED outcome
    /\ UNCHANGED <<schedVars, stepVars, editVars, parseVars, distVars, diff_based_evolution, evaluated,
                   llm_response, parent_code, sanitized, resanitized, unified_code, san_pc>>

\* Lines 207-211: len(child_code) against config.max_code_length.
CheckLength ==
    /\ worker_pc = "generated"
    /\ IF Len(child_code) > MaxCodeLength
       THEN /\ worker_result' = Failure("Generated code exceeds maximum length")
            /\ worker_pc' = "returned"
       ELSE /\ worker_pc' = "sized"
            /\ UNCHANGED worker_result
    /\ UNCHANGED <<schedVars, stepVars, editVars, parseVars, distVars, sanVars, diff_based_evolution, child_code,
                   evaluated>>

\* Lines 213-236: evaluate_program is called with the child and either
\* raises, with the error of the except clause as the result, or returns
\* the metrics of the child program that the task returns.
EvaluateChild ==
    /\ worker_pc = "sized"
    /\ evaluated' = Append(evaluated, child_code)
    /\ \/ worker_result' = Failure("boom")
       \/ \E score \in 0 .. 1 : worker_result' = Child(child_code, score)
    /\ worker_pc' = "returned"
    /\ UNCHANGED <<schedVars, stepVars, editVars, parseVars, distVars, sanVars, diff_based_evolution, child_code>>

WorkNext ==
    \/ GenerateChild
    \/ CheckLength
    \/ EvaluateChild

WorkSpec == WorkInit /\ [][WorkNext]_vars

\* An edit of the list whose search text occurs in the code and whose
\* replacement differs from it.
EditHits(blocks, code) ==
    \E k \in 1 .. Len(blocks) :
        /\ blocks[k].search # <<>>
        /\ blocks[k].search # blocks[k].replace
        /\ Find(code, blocks[k].search) # 0

\* C23: in edit mode a task whose response yields at least one edit hands a
\* child to the evaluator, and the child differs from the parent when the
\* search text of an edit occurs in the parent; a task whose response
\* yields no edit returns a named failure and the evaluator is not called.
C23_EditsAppliedThenEvaluated ==
    (diff_based_evolution /\ worker_pc = "returned") =>
        /\ outcome.diff_blocks # <<>> => Len(evaluated) = 1
        /\ EditHits(outcome.diff_blocks, parent_code) =>
              \A k \in 1 .. Len(evaluated) : evaluated[k] # parent_code
        /\ outcome.diff_blocks = <<>> =>
              /\ worker_result.error \in {"Model skipped", "No valid diffs found in response"}
              /\ evaluated = <<>>

\* C24: in edit mode the task returns the failure of a model skip exactly
\* when the whole response is the word SKIP.
C24_SkipOnlyForLiteral ==
    (diff_based_evolution /\ worker_pc = "returned") =>
        (worker_result.error = "Model skipped" <=> llm_response = SkipWord)

\* The content of the first fenced block of a response, of the whole
\* response when it has no fence, without the lines of a header hint and
\* without newlines at either end.
RewriteContent(response) == parse_full_rewrite(response)[1].content

\* C25: in full-rewrite mode the code of the child is the content of the
\* rewrite; when the content is empty the task returns a named failure,
\* the evaluator is not called and there is no child program.
C25_RewriteIsContent ==
    (~diff_based_evolution /\ worker_pc = "returned") =>
        IF RewriteContent(llm_response) = <<>>
        THEN /\ worker_result.error = "No valid code found in response"
             /\ evaluated = <<>>
             /\ worker_result.child_program_dict = <<>>
        ELSE /\ evaluated = <<RewriteContent(llm_response)>>
             /\ worker_result.child_program_dict # <<>> =>
                   worker_result.child_program_dict[1].code = RewriteContent(llm_response)

\* ------------------------ code_utils.py, calculate_edit_distance (281-322)
MaxWordLen == 3
Letters == {"a", "b"}
Words == UNION {[1 .. k -> Letters] : k \in 0 .. MaxWordLen}

\* The least element of a sequence of numbers.
Least(row) == CHOOSE x \in {row[k] : k \in 1 .. Len(row)} : \A k \in 1 .. Len(row) : x <= row[k]

\* Mutant of EditRow: the deletion term previous[i] + 1 is missing.
RECURSIVE EditRow_NoDeletion(_, _, _, _)
EditRow_NoDeletion(previous, a, bj, current) ==
    IF Len(current) = Len(a) + 1 THEN current
    ELSE EditRow_NoDeletion(previous, a, bj,
            Append(current,
                   Min(current[Len(current)] + 1,
                       previous[Len(current)] + (IF a[Len(current)] = bj THEN 0 ELSE 1))))

\* Lines 307-313, the loop over i: current holds the entries 0 .. i - 1 of
\* the row and is extended by entry i up to entry len(a).
RECURSIVE EditRow(_, _, _, _)
EditRow(previous, a, bj, current) ==
    IF Len(current) = Len(a) + 1 THEN current
    ELSE EditRow(previous, a, bj,
            Append(current,
                   Min(Min(previous[Len(current) + 1] + 1, current[Len(current)] + 1),
                       previous[Len(current)] + (IF a[Len(current)] = bj THEN 0 ELSE 1))))

\* Lines 302-320, the loop over j from column j on: the best entry of the
\* row is returned once it exceeds the ceiling, else the last entry of the
\* last row.
RECURSIVE EditRows(_, _, _, _, _)
EditRows(a, b, previous, j, max_distance) ==
    LET Continue(current) ==
            IF max_distance # NoCeiling /\ Least(current) > max_distance THEN Least(current)
            ELSE EditRows(a, b, current, j + 1, max_distance)
    IN  IF j > Len(b) THEN previous[Len(a) + 1]
        ELSE Continue(EditRow(previous, a, b[j], <<j>>))

\* calculate_edit_distance(a, b, max_distance): the shorter text runs along
\* the row.
calculate_edit_distance(a, b, max_distance) ==
    IF a = b THEN 0
    ELSE IF Len(a) = 0 THEN Len(b)
    ELSE IF Len(b) = 0 THEN Len(a)
    ELSE IF Len(a) > Len(b)
         THEN EditRows(b, a, [k \in 1 .. (Len(b) + 1) |-> k - 1], 1, max_distance)
         ELSE EditRows(a, b, [k \in 1 .. (Len(a) + 1) |-> k - 1], 1, max_distance)

\* The function is about to be called with two words.
DistInit ==
    /\ Constructed(1, 1, 0, 0, NoTarget)
    /\ EditIdle
    /\ SanIdle
    /\ ParseIdle
    /\ WorkIdle
    /\ StepIdle
    /\ word_a \in Words
    /\ word_b \in Words
    /\ ceiling = NoCeiling
    /\ distance = 0
    /\ dist_pc = "words"

\* calculate_edit_distance(a, b) and calculate_edit_distance(a, b, max_distance).
CallEditDistance ==
    /\ dist_pc = "words"
    /\ \E max_distance \in {NoCeiling} \cup (0 .. MaxWordLen) :
          /\ ceiling' = max_distance
          /\ distance' = calculate_edit_distance(word_a, word_b, max_distance)
    /\ dist_pc' = "returned"
    /\ UNCHANGED <<schedVars, stepVars, editVars, sanVars, parseVars, workVars, word_a, word_b>>

DistNext == CallEditDistance

DistSpec == DistInit /\ [][DistNext]_vars

\* The Levenshtein distance with unit costs: the least number of
\* insertions, deletions and replacements of one character.
RECURSIVE Levenshtein(_, _)
Levenshtein(s, t) ==
    IF s = <<>> THEN Len(t)
    ELSE IF t = <<>> THEN Len(s)
    ELSE Min(Min(Levenshtein(Tail(s), t) + 1, Levenshtein(s, Tail(t)) + 1),
             Levenshtein(Tail(s), Tail(t)) + (IF Head(s) = Head(t) THEN 0 ELSE 1))

\* C26: called without a ceiling, calculate_edit_distance returns the
\* Levenshtein distance with unit costs: the length of s from the empty
\* text, 0 from s to s, and the same in both directions.
C26_UnitCostLevenshtein ==
    (dist_pc = "returned" /\ ceiling = NoCeiling) =>
        /\ distance = Levenshtein(word_a, word_b)
        /\ word_a = <<>> => distance = Len(word_b)
        /\ word_a = word_b => distance = 0
        /\ distance = calculate_edit_distance(word_b, word_a, NoCeiling)

\* Two words of different lengths with a distance of 2 and no ceiling.
C26_Witness ==
    /\ dist_pc = "returned"
    /\ ceiling = NoCeiling
    /\ Len(word_a) > Len(word_b)
    /\ word_b # <<>>
    /\ distance = 2

\* ------------------ run_evolution, lines 363-446, one call after another
\* config.checkpoint_interval of the run.
CheckpointInterval == 2

\* The except clause of lines 445-446: the call raised, the error is logged
\* and the pass goes on at line 448.
Caught(it) ==
    /\ log_line' = LogLine("error", it, "Error processing result")
    /\ pc' = "post"

\* The child of the result of the pass.
ChildOf(res) == res.child_program_dict[1]

\* What a step leaves alone besides the variables it names.
PassFrame ==
    UNCHANGED <<cfgVars, ctlVars, pending_futures, island_pending, batch_per_island,
                current_iteration, next_iteration, completed_iterations, completed_iteration,
                island_id, slot, result, returned, poolVars, submit_failures, editVars, sanVars,
                parseVars, workVars, distVars, checkpoint_callback>>

\* Lines 363-379: the first pending future that is done is popped and
\* fut.result() raises or returns the result of the task; a result with an
\* error is logged, one without a child is passed over, and the child of a
\* success is made a Program, which may raise.
PopResult ==
    /\ pc = "loop"
    /\ LoopCondition
    /\ FirstDone(pending_futures) # NoIteration
    /\ completed_iteration' = FirstDone(pending_futures)
    /\ pending_futures' = ListRemove(pending_futures, FirstDone(pending_futures))
    /\ futures' = [futures EXCEPT ![FirstDone(pending_futures)] = "collected"]
    /\ steps' = <<>>
    /\ IF futures[FirstDone(pending_futures)] = "failed"
       THEN Caught(completed_iteration') /\ result' = NoResult
       ELSE \E inp \in WorkerInputs, raises \in BOOLEAN :
               /\ result' = _run_iteration_worker(completed_iteration',
                                                  SnapshotRead(completed_iteration'),
                                                  task_args[completed_iteration'].parent_id, inp)
               /\ IF ResultIsError(result')
                  THEN /\ log_line' = LogLine("warning", completed_iteration', result'.error)
                       /\ pc' = "post"
                  ELSE IF ~ResultHasChild(result')
                  THEN /\ log_line' = NoLog
                       /\ pc' = "post"
                  ELSE IF raises THEN Caught(completed_iteration')
                  ELSE /\ log_line' = NoLog
                       /\ pc' = "add"
    /\ UNCHANGED <<cfgVars, ctlVars, island_pending, batch_per_island, current_iteration,
                   next_iteration, completed_iterations, island_id, slot, current_island_counter,
                   returned, cancel_called, sampling_island, task_args, dbVars, submit_failures,
                   editVars, sanVars, parseVars, workVars, distVars, checkpoint_callback>>

\* Line 380: database.add(child_program, iteration=completed_iteration).
AddChild ==
    /\ pc = "add"
    /\ \/ /\ db_programs' = DatabaseAdd(db_programs, ChildOf(result))
          /\ db_best' = DatabaseBest(db_programs, db_best, ChildOf(result))
          /\ steps' = Append(steps, "add")
          /\ pc' = "artifacts"
          /\ UNCHANGED log_line
       \/ Caught(completed_iteration) /\ UNCHANGED <<db_programs, db_best, steps>>
    /\ PassFrame
    /\ UNCHANGED <<db_current_island, current_island_counter>>

\* Lines 382-383: database.store_artifacts when the result has artifacts.
StoreArtifacts ==
    /\ pc = "artifacts"
    /\ \/ \E artifacts \in BOOLEAN :
             /\ steps' = IF artifacts THEN Append(steps, "store_artifacts") ELSE steps
             /\ pc' = "prompt"
             /\ UNCHANGED log_line
       \/ Caught(completed_iteration) /\ UNCHANGED steps
    /\ PassFrame
    /\ UNCHANGED <<dbVars, current_island_counter>>

\* Lines 385-391: database.log_prompt when the result has a prompt.
LogPrompt ==
    /\ pc = "prompt"
    /\ \/ /\ steps' = IF result.prompt # {} THEN Append(steps, "log_prompt") ELSE steps
          /\ pc' = "rotate"
          /\ UNCHANGED log_line
       \/ result.prompt # {} /\ Caught(completed_iteration) /\ UNCHANGED steps
    /\ PassFrame
    /\ UNCHANGED <<dbVars, current_island_counter>>

\* Lines 393-396: database.next_island() and a counter of 0 when the
\* rotation is due.
RotateIsland ==
    /\ pc = "rotate"
    /\ IF RotationDue(completed_iteration)
       THEN \/ /\ db_current_island' = NextIsland(db_current_island)
               /\ current_island_counter' = 0
               /\ steps' = Append(steps, "next_island")
               /\ pc' = "generation"
               /\ UNCHANGED log_line
            \/ Caught(completed_iteration) /\ UNCHANGED <<db_current_island, current_island_counter, steps>>
       ELSE /\ pc' = "generation"
            /\ UNCHANGED <<db_current_island, current_island_counter, steps, log_line>>
    /\ PassFrame
    /\ UNCHANGED <<db_programs, db_best>>

\* Lines 398-399: the counter is incremented, then
\* database.increment_island_generation() is called.
IncrementGeneration ==
    /\ pc = "generation"
    /\ current_island_counter' = current_island_counter + 1
    /\ \/ /\ steps' = Append(steps, "increment_island_generation")
          /\ pc' = "migrate"
          /\ UNCHANGED log_line
       \/ Caught(completed_iteration) /\ UNCHANGED steps
    /\ PassFrame
    /\ UNCHANGED dbVars

\* Lines 401-404: database.should_migrate() and, when it is true,
\* database.migrate_programs() and database.log_island_status().
Migrate ==
    /\ pc = "migrate"
    /\ \/ \E due \in BOOLEAN :
             /\ steps' = steps \o <<"should_migrate">>
                            \o (IF due THEN <<"migrate_programs">> ELSE <<>>)
             /\ pc' = "checkpoint"
             /\ UNCHANGED log_line
       \/ \E due \in BOOLEAN :
             /\ steps' = IF due THEN Append(steps, "should_migrate") ELSE steps
             /\ Caught(completed_iteration)
    /\ PassFrame
    /\ UNCHANGED <<dbVars, current_island_counter>>

\* Mutant of CheckpointDue: every iteration after iteration 0 is a
\* checkpoint.
CheckpointDue_EveryIteration(it) == it > 0

\* Line 433: the iteration is a positive multiple of the interval.
CheckpointDue(it) == it > 0 /\ it % CheckpointInterval = 0

\* Lines 433-437: at a checkpoint database.log_island_status() is called
\* and the callback, when there is one, with the iteration.
Checkpoint ==
    /\ pc = "checkpoint"
    /\ IF CheckpointDue(completed_iteration)
       THEN \/ /\ steps' = IF checkpoint_callback THEN Append(steps, "checkpoint_callback")
                           ELSE steps
               /\ pc' = "target"
               /\ UNCHANGED log_line
            \/ Caught(completed_iteration) /\ UNCHANGED steps
       ELSE /\ pc' = "target"
            /\ UNCHANGED <<steps, log_line>>
    /\ PassFrame
    /\ UNCHANGED <<dbVars, current_island_counter>>

\* Lines 439-443: the loop is left when the target score is configured and
\* met.
TargetTest ==
    /\ pc = "target"
    /\ pc' = IF TargetReached(ChildOf(result)) THEN "finish" ELSE "post"
    /\ PassFrame
    /\ UNCHANGED <<dbVars, current_island_counter, steps, log_line>>

\* run_evolution with a pool of two workers and one island, called with
\* or without a checkpoint callback.
StepInit ==
    /\ \E mi \in 0 .. MaxIterations, si \in 0 .. MaxStart, ts \in {NoTarget, 1} :
          Constructed(2, 1, mi, si, ts)
    /\ EditIdle
    /\ SanIdle
    /\ ParseIdle
    /\ WorkIdle
    /\ DistIdle
    /\ steps = <<>>
    /\ checkpoint_callback \in BOOLEAN

StepNext ==
    \/ Start
    \/ Stop
    \/ StopJoin
    \/ RequestShutdown
    \/ \E it \in Iterations : WorkerDone(it)
    \/ \E it \in Iterations : WorkerCrash(it)
    \/ RunEvolution
    \/ FillStep
    \/ FillDone
    \/ LoopExit
    \/ LoopSleep
    \/ WakeUp
    \/ PopResult
    \/ AddChild
    \/ StoreArtifacts
    \/ LogPrompt
    \/ RotateIsland
    \/ IncrementGeneration
    \/ Migrate
    \/ Checkpoint
    \/ TargetTest
    \/ Post
    \/ ReplaceStep
    \/ ReplaceDone
    \/ Finish

StepSpec == StepInit /\ [][StepNext]_vars

\* The calls of a list are in the order of lines 379-437, none twice.
InOrder(calls) ==
    \A j, k \in 1 .. Len(calls) : j < k => StepIndex(calls[j]) < StepIndex(calls[k])
Has(calls, name) == \E k \in 1 .. Len(calls) : calls[k] = name

\* One step of a pass: the calls made so far are in order and begin with
\* the insertion; a call is made only for a result without an error and
\* with a child; the island is switched exactly when rotation_due holds
\* before the step of the rotation; a pass that reaches the test of the
\* target has inserted the child, incremented the generation and asked
\* whether a migration is due, and has called the callback exactly when
\* there is one and the iteration is a positive multiple of the interval;
\* the loop is left from inside a pass only by the test of the target.
PassStep(rotation_due) ==
    /\ InOrder(steps')
    /\ steps' # <<>> => steps'[1] = "add"
    /\ steps' # steps /\ steps' # <<>> => ~ResultIsError(result) /\ ResultHasChild(result)
    /\ (pc = "rotate" /\ pc' = "generation") => (Has(steps', "next_island") <=> rotation_due)
    /\ (pc = "target" /\ pc' # pc) =>
          /\ \A name \in {"add", "increment_island_generation", "should_migrate"} :
                Has(steps', name)
          /\ Has(steps', "checkpoint_callback") <=>
                /\ checkpoint_callback
                /\ completed_iteration > 0
                /\ completed_iteration % CheckpointInterval = 0
    /\ (pc \notin {"loop", "finish"} /\ pc' = "finish") =>
          pc = "target" /\ TargetReached(ChildOf(result))

\* C27 as stated: the calls of a pass are made for a success only and in
\* the fixed order, and the island is switched once the counter has
\* reached the quota of an island.
C27_RotationAtQuota == [][PassStep(current_island_counter >= ProgramsPerIsland)]_vars

\* C27: the calls of a pass are made for a success only and in the fixed
\* order, and the island is switched when the counter has reached the
\* quota of an island and the iteration is past the start iteration.
C27_IntegrationOrder ==
    [][PassStep(/\ completed_iteration > start_iteration
                /\ current_island_counter >= ProgramsPerIsland)]_vars

\* A pass has made every call: artifacts, prompt, rotation, migration and
\* the checkpoint callback included.
C27_Witness ==
    /\ pc = "post"
    /\ log_line = NoLog
    /\ steps = <<"add", "store_artifacts", "log_prompt", "next_island",
                 "increment_island_generation", "should_migrate", "migrate_programs",
                 "checkpoint_callback">>

\* ------------------------------------------ C28: one task per iteration
\* How often iteration it is in a pending list.
Occurrences(lst, it) == Cardinality({k \in 1 .. Len(lst) : lst[k] = it})

\* This step hands iteration it to a task (executor.submit, line 487).
Handed(it) == futures[it] # "running" /\ futures'[it] = "running"

\* This step pops the future of iteration it (line 375) to integrate it.
Popped(it) == futures[it] # "collected" /\ futures'[it] = "collected"

\* C28: the iteration number handed to a task is the fill's or the loop's
\* counter, lies in [start_iteration, start_iteration + max_iterations) and
\* has not been submitted before; a popped future is a submitted one that
\* has not been harvested before and leaves the pending dict; a child added
\* to the database is the child of the iteration popped in this step and has
\* an id the database did not hold; at most max_iterations tasks are
\* submitted.
C28_OncePerIteration ==
    [][/\ \A it \in Iterations :
             /\ Handed(it) =>
                   /\ it = (IF pc = "fill" THEN current_iteration ELSE next_iteration)
                   /\ start_iteration <= it
                   /\ it < start_iteration + max_iterations
                   /\ it \notin Submitted
                   /\ Occurrences(pending_futures', it) = 1
             /\ Popped(it) =>
                   /\ it \in Unharvested
                   /\ Occurrences(pending_futures, it) = 1
                   /\ Occurrences(pending_futures', it) = 0
       /\ \A child \in db_programs' \ db_programs :
             /\ child.id \in Iterations
             /\ Popped(child.id)
             /\ child.id \notin ProgramIds(db_programs)
       /\ Cardinality({it \in Iterations : futures'[it] # "none"}) <= max_iterations
      ]_vars

\* The whole budget of three iterations has been submitted and harvested,
\* and each of the three children is in the database.
C28_Witness ==
    /\ max_iterations = MaxIterations
    /\ Cardinality(Submitted) = max_iterations
    /\ Collected = Submitted
    /\ Iterations \subseteq ProgramIds(db_programs)

\* ------------------------------------- C29: the island a child carries
\* What parent.metadata can hold under "island" for the initial program,
\* which the population store created: nothing, or one of the islands.
IslandMetadata == {NoIsland} \cup Islands

\* Line 142: parent.metadata.get("island", db_snapshot["current_island"]).
ParentIsland(metadata, db_snapshot) ==
    IF metadata # NoIsland THEN metadata ELSE db_snapshot.current_island

\* Lines 218-227: the metadata of the child of iteration pid holds the
\* island of line 142; its parent is the program the task was given, whose
\* metadata was written the same way by the task that produced it.
RECURSIVE MetadataIsland(_, _)
MetadataIsland(pid, seed_island) ==
    IF pid = Seed THEN seed_island
    ELSE ParentIsland(MetadataIsland(task_args[pid].parent_id, seed_island),
                      task_args[pid].db_snapshot)

\* The children the tasks have produced and the loop has inserted.
Children == ProgramIds(db_programs) \ {Seed}

\* C29 as stated: the child of every task carries the island the task was
\* submitted for (for some metadata the initial program may have).
C29_ChildCarriesSubmissionIsland ==
    \E seed_island \in IslandMetadata :
        \A it \in Children : MetadataIsland(it, seed_island) = sampling_island[it]

\* ------------------------------------------- C30: nothing left behind
\* C30 as stated: when run_evolution has returned, every task it submitted
\* has been harvested or has received a cancel() call.
C30_HarvestedOrCancelled ==
    pc = "done" => Unharvested \subseteq cancel_called

====
